---- MODULE Spec2Model ----
(***************************************************************************)
(* The mail sync engine of inbox/server/sync.py: the per-folder state      *)
(* machine (FolderSyncMonitor), the per-account ThreadDetector, the        *)
(* account supervisor (MailSyncMonitor) and the control plane              *)
(* (SyncService).                                                          *)
(*                                                                         *)
(* Spec      one account inside one SyncService process: a supervisor, its *)
(*           sync task, one worker per folder, the thread detector, the    *)
(*           IMAP server as environment, blob-store failures, the shutdown *)
(*           command and a restart of the process.                         *)
(* SpecHosts two SyncService processes on two hosts sharing the account    *)
(*           row of one account (start_sync / stop_sync).                  *)
(* SpecService, SpecRerun, SpecDetector, SpecRemove and SpecDedup are      *)
(* introduced where they are defined; SpecNewToken and SpecToken cover     *)
(* GmailAccount.new_token and GTokenManager of models/backends/gmail.py.   *)
(***************************************************************************)
EXTENDS Integers, FiniteSets, Sequences, TLC

VARIABLES
    provider,        \* account.provider: "Gmail" or "IMAP"
    srv,             \* the IMAP server: per folder UIDVALIDITY, HIGHESTMODSEQ, messages
    env_left,        \* events of the environment still allowed
    pstate,          \* FolderSync.state as committed in the database (or NoRow)
    fs,              \* foldersync.state as held by the ORM object in db_session
    checkpoint,      \* UIDValidity rows: per folder NoCk or [uv, hms]
    messages,        \* committed Message rows
    folderitems,     \* committed FolderItem rows
    threads,         \* Thread rows per provider thread id (a count)
    blobs,           \* message ids whose parts are in the blob store
    cache,           \* the metadata cache: key -> NoCache or a remote_g_metadata map
    w,               \* per folder: the FolderSyncMonitor greenlet
    td,              \* the ThreadDetector greenlet
    inbox,           \* ThreadDetector.inbox
    event,           \* per folder: the completion Event of the batch it enqueued
    sup,             \* MailSyncMonitor._run
    sync,            \* MailSyncMonitor.sync
    folder_monitors, \* MailSyncMonitor.folder_monitors
    cmds,            \* MailSyncMonitor.inbox
    sync_host,       \* SpecHosts: account.sync_host in the shared database
    lock,            \* SpecHosts: holder of the account's sync lock
    monitors,        \* SpecHosts: per host, is the account in SyncService.monitors
    hsup,            \* SpecHosts: per host, the supervisors (with their workers)
                     \*   of the account that are running
    hcmd,            \* SpecHosts: per host, "shutdown" commands not yet processed
    rpc,             \* SpecHosts: per host, the RPC call in progress
    svc,             \* SpecService: one SyncService, its accounts and its call
    fn               \* SpecRemove: one call of a function, its arguments and result

wvars   == <<w, td, inbox, event, sup, sync, folder_monitors, cmds>>
dbvars  == <<pstate, fs, checkpoint, messages, folderitems, threads, blobs, cache>>
envvars == <<provider, srv, env_left>>
hvars   == <<sync_host, lock, monitors, hsup, hcmd, rpc, svc, fn>>
vars    == <<wvars, dbvars, envvars, hvars>>

(***************************************************************************)
(* Bounds of the model.                                                    *)
(***************************************************************************)
\* events of the environment: new mail, a flag change, a removed message, a
\* UIDVALIDITY change,
\* a blob-store or network failure, a restart of the SyncService process, a
\* command to the supervisor
MaxEnv   == 2
\* SpecHosts: RPC calls per host
MaxCalls == 3
\* SpecService: accounts in the database, and RPC calls made
MaxAccounts == 2
MaxSvcCalls == 2

(***************************************************************************)
(* The folder states, as spelled in state_handlers.                        *)
(***************************************************************************)
States == {"initial", "initial uidinvalid", "poll", "poll uidinvalid", "finish"}
None   == "None"
NoRow  == "NoRow"
NoCk   == [uv |-> 0, hms |-> 0]
NoCache == {[uid |-> 0, msgid |-> 0]}

\* FolderSync.state of a freshly inserted row
FolderSyncDefault == "initial"

Folders     == {"Inbox", "All"}
\* crispin_client.sync_folders(c), poll_folders(c), folder_names(c)['All']
SyncFolders == <<"Inbox", "All">>
PollFolders == {"Inbox"}
AllMail     == "All"
\* crispin_client.CHUNK_SIZE
CHUNK_SIZE  == 1

Msgids == 1..3
\* X-GM-THRID of a message: messages 1 and 2 share a thread
ThridOf(m) == IF m = 3 THEN 2 ELSE 1
Thrids == {ThridOf(m) : m \in Msgids}

Max(S) == CHOOSE x \in S : \A y \in S : y <= x
Min(S) == CHOOSE x \in S : \A y \in S : x <= y

RECURSIVE SortDesc(_)
SortDesc(S) == IF S = {} THEN <<>> ELSE <<Max(S)>> \o SortDesc(S \ {Max(S)})

RECURSIVE SortAsc(_)
SortAsc(S) == IF S = {} THEN <<>> ELSE <<Min(S)>> \o SortAsc(S \ {Min(S)})

\* util.itert.chunk
RECURSIVE Chunk(_, _)
Chunk(s, n) ==
    IF s = <<>> THEN <<>>
    ELSE IF Len(s) <= n THEN <<s>>
    ELSE <<SubSeq(s, 1, n)>> \o Chunk(SubSeq(s, n + 1, Len(s)), n)

Range(s) == {s[i] : i \in 1..Len(s)}

(***************************************************************************)
(* The IMAP server as seen through crispin_client.                         *)
(***************************************************************************)
ServerUids(f) == {m.uid : m \in srv[f].msgs}

\* crispin_client.g_metadata(uids, c): uid -> msgid (thrid is ThridOf(msgid))
GMetadata(f, uids) ==
    {[uid |-> m.uid, msgid |-> m.msgid] : m \in {x \in srv[f].msgs : x.uid \in uids}}

\* crispin_client.new_and_updated_uids(modseq, c)
NewAndUpdatedUids(f, since) == {m.uid : m \in {x \in srv[f].msgs : x.modseq > since}}

\* crispin_client.flags(uids, c) for one UID: the flags and labels of a
\* message are identified by the MODSEQ of their last change
Flags(f, u) == (CHOOSE m \in srv[f].msgs : m.uid = u).modseq

\* crispin_client.expand_threads(g_thrids, c), with All Mail selected
ExpandThreads(thrids) ==
    {m.uid : m \in {x \in srv[AllMail].msgs : ThridOf(x.msgid) \in thrids}}

Uids(meta) == {e.uid : e \in meta}
MsgidOf(meta, u) == (CHOOSE e \in meta : e.uid = u).msgid

(***************************************************************************)
(* The metadata store as seen through the account object.                  *)
(***************************************************************************)
\* account.all_uids(db_session, folder_name)
LocalUids(fis, f) == {i.uid : i \in {x \in fis : x.folder = f}}

\* account.g_metadata(db_session, folder_name)
LocalGMetadata(fis, f) ==
    {[uid |-> i.uid, msgid |-> i.msgid] : i \in {x \in fis : x.folder = f}}

\* account.g_msgids(db_session, in_=...)
LocalGMsgids(in) == {m.msgid : m \in messages} \cap in

\* account.remove_messages(db_session, uids, folder_name)
RemoveMessages(fis, uids, f) == {i \in fis : ~(i.folder = f /\ i.uid \in uids)}

\* the two spellings of the cache key of a folder's remote_g_metadata
CacheKeyPath(f)   == <<"path", f>>
CacheKeyJoined(f) == <<"joined", f>>
CacheKeys == {CacheKeyPath(f) : f \in Folders} \cup {CacheKeyJoined(f) : f \in Folders}

(***************************************************************************)
(* uidvalidity_callback: raises UIDInvalid when a checkpoint is cached and  *)
(* the UIDVALIDITY just selected disagrees with it.                         *)
(***************************************************************************)
\* account.uidvalidity_valid(db_session, selected, folder, cached)
UidvalidityValid(selected, cached) == selected = cached

UIDInvalidRaised(ck, f) ==
    ck[f] # NoCk /\ ~UidvalidityValid(srv[f].uv, ck[f].uv)

\* the except clause of FolderSyncMonitor._run
UidInvalidState(s) == s \o " uidinvalid"

(***************************************************************************)
(* _deduplicate_message_download and _add_new_folderitem.                   *)
(***************************************************************************)
\* every UID taken for a full download, stored message or not
FullDownloadAll(meta, uids) == uids

\* partition(pred, uids): the UIDs for which pred is false come first
FullDownload(meta, uids) ==
    {u \in uids :
        MsgidOf(meta, u) \notin LocalGMsgids({MsgidOf(meta, x) : x \in uids})}

\* ... and those for which it is true second
FolderitemOnly(meta, uids) ==
    {u \in uids :
        MsgidOf(meta, u) \in LocalGMsgids({MsgidOf(meta, x) : x \in uids})}

FolderItem(folder, u, m, by, flags) ==
    [folder |-> folder, uid |-> u, msgid |-> m, by |-> by, flags |-> flags]

AddNewFolderitem(fis, meta, uids, sel, by) ==
    fis \cup {FolderItem(sel, u, MsgidOf(meta, u), by, Flags(sel, u)) :
                u \in uids \ LocalUids(fis, sel)}

\* _add_new_folderitem called for every UID, stored message or not
DedupFolderitemsAll(fis, meta, uids, sel, by) ==
    AddNewFolderitem(fis, meta, uids, sel, by)

DedupFolderitems(fis, meta, uids, sel, by) ==
    LET only == FolderitemOnly(meta, uids)
    IN  IF only # {} THEN AddNewFolderitem(fis, meta, only, sel, by) ELSE fis

\* the difference of line 629 taken the other way round
ToDeleteRemote(local_uids, remote_uids) == remote_uids \ local_uids

\* line 629: to_delete, which _remove_deleted_messages also returns
ToDelete(local_uids, remote_uids) == local_uids \ remote_uids

\* _remove_deleted_messages: the folder items left, to_delete being L \ R
RemoveDeleted(fis, local_uids, remote_uids, f) ==
    LET to_delete == ToDelete(local_uids, remote_uids)
    IN  IF to_delete # {} THEN RemoveMessages(fis, to_delete, f) ELSE fis

\* account.update_metadata(db_session, folder_name, uids, new_flags) with
\* the flags _update_metadata has just fetched
UpdateMetadata(fis, f, uids) ==
    {IF i.folder = f /\ i.uid \in uids THEN [i EXCEPT !.flags = Flags(f, i.uid)]
     ELSE i : i \in fis}

\* _update_validity
UpdateValidity(ck, f, uv, hms) == [ck EXCEPT ![f] = [uv |-> uv, hms |-> hms]]

(***************************************************************************)
(* A handler's pass up to its first download: what it committed and the     *)
(* chunks it is going to fetch.                                             *)
(***************************************************************************)
Plan(out, ca, ck, fis, queue, orig, sel, fin) ==
    [out |-> out, cache |-> ca, checkpoint |-> ck, folderitems |-> fis,
     queue |-> queue, orig |-> orig, sel |-> sel, fin |-> fin]

\* _download_expanded_threads up to the first thread's download
ExpandedPlan(f, meta, uids, flagkeys, ca, ck, fis, fin) ==
    IF provider # "Gmail" \/ uids # flagkeys
    THEN Plan("crash", ca, ck, fis, <<>>, {}, f, fin)
    ELSE IF UIDInvalidRaised(ck, AllMail)
    THEN Plan("uidinvalid", ca, ck, fis, <<>>, {}, AllMail, fin)
    ELSE
      LET folder_meta == {e \in meta : e.uid \in uids}
          all_g_thrids == {ThridOf(e.msgid) : e \in folder_meta}
          thread_uids == ExpandThreads(all_g_thrids)
          thread_g_metadata == GMetadata(AllMail, thread_uids)
          to_download == FullDownload(thread_g_metadata, thread_uids)
          fis2 == DedupFolderitems(fis, thread_g_metadata, thread_uids, AllMail, f)
          uids_for(t) ==
              {u \in to_download : ThridOf(MsgidOf(thread_g_metadata, u)) = t}
          ts == SortDesc({ThridOf(MsgidOf(thread_g_metadata, u)) : u \in to_download})
      IN  Plan("ok", ca, ck, fis2,
               [i \in 1..Len(ts) |-> SortDesc(uids_for(ts[i]))],
               {[uid |-> e.uid, msgid |-> e.msgid, flags |-> Flags(f, e.uid)] :
                  e \in folder_meta},
               AllMail, fin)

IsExpanded(f) == provider = "Gmail" /\ f # AllMail

\* initial_sync up to the first chunk (lines 248-302)
InitialPlan(f) ==
    LET local_uids == LocalUids(folderitems, f)
    IN
    IF UIDInvalidRaised(checkpoint, f)
    THEN Plan("uidinvalid", cache, checkpoint, folderitems, <<>>, {}, f, NoCk)
    ELSE
      LET cached == IF checkpoint[f] # NoCk THEN cache[CacheKeyPath(f)] ELSE NoCache
          \* _update_g_metadata_cache
          modified == NewAndUpdatedUids(f, srv[f].hms)
          new == modified \ local_uids
          merged == {e \in cached : e.uid \notin new} \cup GMetadata(f, new)
          updated_cache == {e \in merged : e.uid \in ServerUids(f)}
          stale == cached # NoCache /\ srv[f].hms > checkpoint[f].hms
          remote_g_metadata ==
              IF cached = NoCache THEN GMetadata(f, ServerUids(f))
              ELSE IF stale THEN updated_cache ELSE cached
          ca == IF cached = NoCache
                THEN [cache EXCEPT ![CacheKeyPath(f)] = remote_g_metadata]
                ELSE IF stale
                THEN [cache EXCEPT ![CacheKeyJoined(f)] = remote_g_metadata]
                ELSE cache
          ck == IF cached = NoCache
                THEN UpdateValidity(checkpoint, f, srv[f].uv, srv[f].hms)
                ELSE checkpoint
          remote_uids == Uids(remote_g_metadata)
          \* lines 434-436
          fis0 == IF stale
                  THEN UpdateMetadata(folderitems, f, modified \cap local_uids)
                  ELSE folderitems
          fis1 == RemoveDeleted(fis0, local_uids, remote_uids, f)
          unknown_uids == remote_uids \ LocalUids(fis1, f)
      IN
      IF IsExpanded(f)
      THEN ExpandedPlan(f, remote_g_metadata, remote_uids,
                        remote_uids \cap ServerUids(f), ca, ck, fis1, NoCk)
      ELSE Plan("ok", ca, ck,
                DedupFolderitems(fis1, remote_g_metadata, unknown_uids, f, f),
                Chunk(SortDesc(FullDownload(remote_g_metadata, unknown_uids)),
                      CHUNK_SIZE),
                {}, f, NoCk)

\* poll and _highestmodseq_update up to the first chunk (lines 600-609 and 439-466)
PollPlan(f) ==
    LET cached_validity == checkpoint[f]
        idle == Plan("idle", cache, checkpoint, folderitems, <<>>, {}, f, NoCk)
    IN
    IF cached_validity = NoCk
    THEN Plan("crash", cache, checkpoint, folderitems, <<>>, {}, f, NoCk)
    ELSE IF ~(srv[f].hms > cached_validity.hms) THEN idle
    ELSE IF UIDInvalidRaised(checkpoint, f)
    THEN Plan("uidinvalid", cache, checkpoint, folderitems, <<>>, {}, f, NoCk)
    ELSE
      LET fin == [uv |-> srv[f].uv, hms |-> srv[f].hms]
          local0 == LocalUids(folderitems, f)
          g_metadata0 == LocalGMetadata(folderitems, f)
          uids == NewAndUpdatedUids(f, cached_validity.hms)
          remote_uids == ServerUids(f)
          new == uids \ local0
          local1 == local0 \cup new
          fis1 == RemoveDeleted(folderitems, IF uids # {} THEN local1 ELSE local0,
                                remote_uids, f)
          local2 == local1 \ (local1 \ remote_uids)
          g_metadata == {e \in g_metadata0 : e.uid \notin new} \cup GMetadata(f, new)
      IN
      IF uids = {}
      THEN Plan("ok", cache, checkpoint, fis1, <<>>, {}, f, fin)
      ELSE IF IsExpanded(f)
      THEN ExpandedPlan(f, g_metadata, local2, local2 \cap ServerUids(f),
                        cache, checkpoint, fis1, fin)
      ELSE Plan("ok", cache, checkpoint,
                DedupFolderitems(fis1, g_metadata, new, f, f),
                Chunk(SortAsc(FullDownload(g_metadata, new)), CHUNK_SIZE),
                {}, f, fin)

\* lines 445-448: the changed UIDs that are local
PollUpdated(f) ==
    NewAndUpdatedUids(f, checkpoint[f].hms) \cap LocalUids(folderitems, f)

\* lines 475-476: the UIDs whose flags _highestmodseq_update fetches again
PollRefreshed(f, updated) == IF IsExpanded(f) THEN {} ELSE updated

(***************************************************************************)
(* Initial state: a fresh account that start_sync has just handed to a new  *)
(* supervisor.                                                              *)
(***************************************************************************)
Msg(u, m, q) == [uid |-> u, msgid |-> m, modseq |-> q]

InitialMailbox(p) ==
    IF p = "Gmail"
    THEN [f \in Folders |->
            IF f = AllMail
            THEN [uv |-> 1, hms |-> 2, msgs |-> {Msg(1, 1, 1), Msg(2, 2, 1)}]
            ELSE [uv |-> 1, hms |-> 2, msgs |-> {Msg(1, 1, 1)}]]
    ELSE [f \in Folders |->
            IF f = AllMail
            THEN [uv |-> 1, hms |-> 2, msgs |-> {Msg(1, 2, 1)}]
            ELSE [uv |-> 1, hms |-> 2, msgs |-> {Msg(1, 1, 1)}]]

\* FolderSyncMonitor.__init__; seen is the server content that the current
\* initial_sync pass, or the pass that raised UIDInvalid, started from (the
\* other passes return the state they started in); first is the one the last
\* completed initial_sync pass started from; redo is the new state a worker
\* of the folder had returned, and the server content its pass started from,
\* when the process ended before the commit of line 212 had persisted it;
\* lease tells whether the worker holds a connection of the pool; status is
\* the state label of statuses[account.id][folder], which the workers of the
\* folder write through status_callback (lines 787-792)
NewWorker(f) ==
    [pc |-> "unborn", state |-> None, sel |-> f, queue |-> <<>>, items |-> <<>>,
     orig |-> {}, updated |-> {}, fin |-> NoCk,
     raised |-> None, lost |-> {}, retry |-> {},
     seen |-> {}, first |-> {}, redo |-> {}, lease |-> FALSE, status |-> None]

\* ThreadDetector.__init__
NewDetector == [pc |-> "idle", f |-> "Inbox", batch |-> <<>>, cache |-> {}]

\* MailSyncMonitor.__init__
NewSupervisor == [pc |-> "run", ki |-> 1]
NewSync == [pc |-> "init", idx |-> 1, saved |-> [f \in Folders |-> NoRow]]

\* socket.getfqdn() of the two SyncService processes
Hosts == {"A", "B"}
Null == "null"
Free == "free"

\* the accounts of the database, in the order the query returns them
Accounts == 1..MaxAccounts
\* email_address=None
NoEmail == 0
\* the host SpecService looks at, and the other one
ThisHost == "A"
OtherHost == "B"

\* SyncService.__init__ with no account active: monitors is empty; the fields
\* of the call in progress are its operation, its email_address, the accounts
\* the loop has not reached, results, and what the caller got; running is the
\* set of accounts whose MailSyncMonitor greenlet is alive
NewService ==
    [monitors |-> {}, sync_host |-> [a \in Accounts |-> Null],
     locks |-> [a \in Accounts |-> Free],
     pc |-> "idle", op |-> "none", arg |-> NoEmail, todo |-> <<>>,
     results |-> [a \in Accounts |-> "none"], ret |-> "none",
     had |-> {}, sent |-> {}, calls |-> 0, running |-> {}]

\* SyncService.__init__ with no account active
InitHosts ==
    /\ sync_host = Null
    /\ lock = Free
    /\ monitors = [h \in Hosts |-> FALSE]
    /\ hsup = [h \in Hosts |-> 0]
    /\ hcmd = [h \in Hosts |-> 0]
    /\ rpc = [h \in Hosts |-> [pc |-> "idle", seen |-> Null, calls |-> 0]]
    /\ svc = NewService

InitAccountWith(events) ==
    /\ provider \in {"Gmail", "IMAP"}
    /\ srv = InitialMailbox(provider)
    /\ env_left = events
    /\ pstate = [f \in Folders |-> NoRow]
    /\ fs = [f \in Folders |-> NoRow]
    /\ checkpoint = [f \in Folders |-> NoCk]
    /\ messages = {}
    /\ folderitems = {}
    /\ threads = [t \in Thrids |-> 0]
    /\ blobs = {}
    /\ cache = [k \in CacheKeys |-> NoCache]
    /\ w = [f \in Folders |-> NewWorker(f)]
    /\ td = NewDetector
    /\ inbox = <<>>
    /\ event = [f \in Folders |-> FALSE]
    /\ sup = NewSupervisor
    /\ sync = NewSync
    /\ folder_monitors = <<>>
    /\ cmds = <<>>

\* no function call under way
NoCall == [pc |-> "none"]

InitAccount == InitAccountWith(MaxEnv)

Init == InitAccount /\ InitHosts /\ fn = NoCall

(***************************************************************************)
(* db_session.commit(): everything the shared session holds becomes         *)
(* durable, the state of every loaded FolderSync object included.           *)
(***************************************************************************)
Flush(orm) == [f \in Folders |-> IF orm[f] # NoRow THEN orm[f] ELSE pstate[f]]

Alive(f) == w[f].pc \notin {"unborn", "done", "crashed", "killed"}

(***************************************************************************)
(* FolderSyncMonitor._run                                                   *)
(***************************************************************************)
\* lines 192-201: load the FolderSync row, or insert and commit a new one
W_Load(f) ==
    /\ w[f].pc = "start"
    /\ fs' = IF pstate[f] = NoRow THEN [fs EXCEPT ![f] = FolderSyncDefault] ELSE fs
    /\ pstate' = IF pstate[f] = NoRow THEN Flush(fs') ELSE pstate
    /\ w' = [w EXCEPT ![f].state = fs'[f], ![f].pc = "loop"]
    /\ UNCHANGED <<checkpoint, messages, folderitems, threads, blobs, cache>>
    /\ UNCHANGED <<td, inbox, event, sup, sync, folder_monitors, cmds, envvars, hvars>>

\* line 207 assigning self.state only, not foldersync.state
ReturnedInMemoryOnly(f, new_state) ==
    /\ w' = [w EXCEPT ![f].state = new_state, ![f].pc = "commit",
                      ![f].queue = <<>>, ![f].items = <<>>, ![f].lease = FALSE]
    /\ fs' = fs

\* lines 207-209: the handler returned new_state
Returned(f, new_state) ==
    /\ w' = [w EXCEPT ![f].state = new_state, ![f].pc = "commit",
                      ![f].queue = <<>>, ![f].items = <<>>, ![f].updated = {},
                      ![f].lease = FALSE,
                      ![f].first = IF fs[f] = "initial" THEN w[f].seen
                                   ELSE w[f].first]
    /\ fs' = [fs EXCEPT ![f] = new_state]

\* _run without its except clause: UIDInvalid ends the greenlet
UIDInvalidNotCaught(f) ==
    /\ w' = [w EXCEPT ![f].pc = "crashed", ![f].raised = w[f].state,
                      ![f].lease = FALSE]
    /\ fs' = fs

\* lines 208-209: the handler raised UIDInvalid
CaughtUIDInvalid(f) ==
    /\ w' = [w EXCEPT ![f].state = UidInvalidState(w[f].state), ![f].pc = "commit",
                      ![f].raised = w[f].state,
                      ![f].seen = {srv}, ![f].lease = FALSE,
                      ![f].queue = <<>>, ![f].items = <<>>]
    /\ fs' = [fs EXCEPT ![f] = UidInvalidState(w[f].state)]

\* the handler raised anything else: the greenlet dies
Crashed(f) ==
    /\ w' = [w EXCEPT ![f].pc = "crashed", ![f].lease = FALSE]
    /\ fs' = fs

\* resync_uids as it would be if it selected the folder again
ResyncUidsSelecting(previous_state) ==
    [raises |-> "UIDInvalid", returns |-> previous_state]

\* resync_uids(previous_state), lines 216-226
ResyncUids(previous_state) ==
    [raises |-> "NotImplementedError", returns |-> previous_state]

PreviousState(s) == IF s = "initial uidinvalid" THEN "initial" ELSE "poll"

\* the lambdas of state_handlers: 'initial uidinvalid', 'poll uidinvalid'
\* and 'finish'
W_Lambda(f) ==
    /\ w[f].pc = "loop"
    /\ fs[f] \in {"initial uidinvalid", "poll uidinvalid", "finish"}
    /\ LET r == ResyncUids(PreviousState(fs[f]))
       IN  IF fs[f] = "finish" THEN Returned(f, "finish")
           ELSE IF r.raises = "UIDInvalid" THEN CaughtUIDInvalid(f)
           ELSE IF r.raises = "none" THEN Returned(f, r.returns)
           ELSE Crashed(f)
    /\ UNCHANGED <<pstate, checkpoint, messages, folderitems, threads, blobs, cache>>
    /\ UNCHANGED <<td, inbox, event, sup, sync, folder_monitors, cmds, envvars, hvars>>

\* lines 250 and 602: with self.crispin_client.pool.get() as c
PoolGet == TRUE

\* the first part of a handler pass, as planned by InitialPlan or PollPlan;
\* UIDInvalid and every other exception leave the with block
Begin(f, plan) ==
    /\ cache' = plan.cache
    /\ checkpoint' = plan.checkpoint
    /\ folderitems' = plan.folderitems
    /\ pstate' = IF plan.checkpoint # checkpoint \/ plan.folderitems # folderitems
                 THEN Flush(fs) ELSE pstate
    /\ IF plan.out = "uidinvalid" THEN CaughtUIDInvalid(f)
       ELSE IF plan.out = "crash" THEN Crashed(f)
       ELSE IF plan.out = "idle"
       THEN /\ w' = [w EXCEPT ![f].pc = "sleep", ![f].lease = PoolGet,
                              ![f].status = "poll"]
            /\ fs' = fs
       ELSE /\ w' = [w EXCEPT ![f].pc = IF plan.queue = <<>> THEN "end" ELSE "fetch",
                              ![f].lease = PoolGet,
                              ![f].queue = plan.queue, ![f].orig = plan.orig,
                              ![f].updated = IF fs[f] = "poll" THEN PollUpdated(f)
                                             ELSE {},
                              ![f].sel = plan.sel, ![f].fin = plan.fin,
                              ![f].raised = None, ![f].items = <<>>,
                              ![f].seen = IF fs[f] = "initial" THEN {srv}
                                          ELSE w[f].seen]
            /\ fs' = fs
    /\ UNCHANGED <<messages, threads, blobs>>
    /\ UNCHANGED <<td, inbox, event, sup, sync, folder_monitors, cmds, envvars, hvars>>

\* state_handlers['initial']
W_InitialSync(f) ==
    /\ w[f].pc = "loop"
    /\ fs[f] = "initial"
    /\ Begin(f, InitialPlan(f))

\* state_handlers['poll']
W_Poll(f) ==
    /\ w[f].pc = "loop"
    /\ fs[f] = "poll"
    /\ Begin(f, PollPlan(f))

(***************************************************************************)
(* _download_new_messages                                                   *)
(***************************************************************************)
\* safe_download: the messages of the chunk the selected folder still holds
\* safe_download: the FolderItems (with their Messages) that create_message
\* builds for the UIDs the server still has; they are outside the session
\* until add_all
SafeDownload(sel, uids) ==
    LET present == SelectSeq(uids, LAMBDA u : u \in ServerUids(sel))
    IN  [i \in 1..Len(present) |->
            [uid |-> present[i],
             msgid |-> MsgidOf(GMetadata(sel, ServerUids(sel)), present[i]),
             flags |-> Flags(sel, present[i])]]

Msgs(items) == {items[i].msgid : i \in 1..Len(items)}

\* shared_state['thread_callback']((new_messages, event))
ThreadCallback(q, f, items) ==
    Append(q, [f |-> f, batch |-> [i \in 1..Len(items) |-> ThridOf(items[i].msgid)]])

\* lines 341-358: fetch the chunk, save every part, hand the batch over
W_Download(f) ==
    /\ w[f].pc = "fetch"
    /\ LET items == SafeDownload(w[f].sel, Head(w[f].queue))
       IN  /\ w' = [w EXCEPT ![f].pc = "wait", ![f].items = items]
           /\ blobs' = blobs \cup Msgs(items)
           /\ inbox' = ThreadCallback(inbox, f, items)
           /\ event' = [event EXCEPT ![f] = FALSE]
    /\ UNCHANGED <<pstate, fs, checkpoint, messages, folderitems, threads, cache>>
    /\ UNCHANGED <<td, sup, sync, folder_monitors, cmds, envvars, hvars>>

\* _gevent_check_join logging the errors without raising
GeventCheckJoinSilent(errors) == "joined"

\* _gevent_check_join, lines 328-338
GeventCheckJoin(errors) == IF errors THEN "SyncException" ELSE "joined"

\* lines 345-351: the part save of the k-th message of the chunk fails
W_BlobFailure(f) ==
    /\ w[f].pc = "fetch"
    /\ env_left > 0
    /\ LET items == SafeDownload(w[f].sel, Head(w[f].queue))
       IN  \E k \in 1..Len(items) :
             IF GeventCheckJoin(TRUE) = "SyncException"
             THEN /\ blobs' = blobs \cup {items[i].msgid : i \in 1..(k - 1)}
                  /\ w' = [w EXCEPT ![f].pc = "crashed", ![f].items = items,
                                    ![f].lease = FALSE,
                                    ![f].lost = Range(Head(w[f].queue))]
                  /\ UNCHANGED <<inbox, event>>
             ELSE /\ blobs' = blobs \cup (Msgs(items) \ {items[k].msgid})
                  /\ w' = [w EXCEPT ![f].pc = "wait", ![f].items = items,
                                    ![f].lost = Range(Head(w[f].queue))]
                  /\ inbox' = ThreadCallback(inbox, f, items)
                  /\ event' = [event EXCEPT ![f] = FALSE]
    /\ env_left' = env_left - 1
    /\ UNCHANGED <<pstate, fs, checkpoint, messages, folderitems, threads, cache>>
    /\ UNCHANGED <<td, sup, sync, folder_monitors, cmds>>
    /\ UNCHANGED <<provider, srv, hvars>>

\* line 303: num_local_messages += self._download_new_messages(uids, c)
\* adds the returned list to an int
InitialProgress == "TypeError"

\* lines 541-553: folder items of the original folder for the new messages
OriginalFolderitems(f, orig, items) ==
    {FolderItem(f, e.uid, e.msgid, f, e.flags) :
        e \in {x \in orig : x.msgid \in Msgs(items)}}

\* _download_new_messages committing without event.wait()
EventNotAwaited(f) == TRUE

\* _download_new_messages going on as soon as its batch has left the inbox
EventWaitDequeued(f) == \A i \in 1..Len(inbox) : inbox[i].f # f

\* line 358: event.wait()
EventWait(f) == event[f]

\* lines 358-361: the event fired; add_all and commit; in an expanded thread
\* the folder items of the original folder are still to come
W_ChunkCommit(f) ==
    /\ w[f].pc = "wait"
    /\ EventWait(f)
    /\ messages' = messages \cup {[msgid |-> m, by |-> f] : m \in Msgs(w[f].items)}
    /\ folderitems' =
         folderitems
         \cup {FolderItem(w[f].sel, w[f].items[i].uid, w[f].items[i].msgid, f,
                          w[f].items[i].flags) :
                 i \in 1..Len(w[f].items)}
    /\ pstate' = Flush(fs)
    /\ IF IsExpanded(f)
       THEN w' = [w EXCEPT ![f].pc = "orig"]
       ELSE IF fs[f] = "initial" /\ InitialProgress = "TypeError"
       THEN w' = [w EXCEPT ![f].pc = "crashed", ![f].lease = FALSE]
       ELSE \* lines 467-470: the chunk of a poll pass is counted and the
            \* status published
            w' = [w EXCEPT ![f].queue = Tail(w[f].queue),
                           ![f].status = "initial",
                           ![f].pc = IF Tail(w[f].queue) = <<>> THEN "end"
                                     ELSE "fetch"]
    /\ UNCHANGED <<fs, checkpoint, threads, blobs, cache>>
    /\ UNCHANGED <<td, inbox, event, sup, sync, folder_monitors, cmds, envvars, hvars>>

\* lines 537-557: the folder items of the original folder for the messages
\* just downloaded, their commit, and the status of the thread
W_OriginalFolderitems(f) ==
    /\ w[f].pc = "orig"
    /\ folderitems' = folderitems \cup OriginalFolderitems(f, w[f].orig, w[f].items)
    /\ pstate' = Flush(fs)
    /\ w' = [w EXCEPT ![f].queue = Tail(w[f].queue),
                      ![f].status = "initial",
                      ![f].pc = IF Tail(w[f].queue) = <<>> THEN "end" ELSE "fetch"]
    /\ UNCHANGED <<fs, checkpoint, messages, threads, blobs, cache>>
    /\ UNCHANGED <<td, inbox, event, sup, sync, folder_monitors, cmds, envvars, hvars>>

\* initial_sync lines 311-323: the with block ends, the cache entry is
\* removed and poll_folders(c) is sent; poll lines 475-481 and 611-614: the
\* flags of the updated UIDs, the checkpoint, the status and then the sleep,
\* still inside the with block of line 602
W_HandlerEnd(f) ==
    /\ w[f].pc = "end"
    /\ IF fs[f] = "initial"
       THEN /\ cache' = [cache EXCEPT ![CacheKeyPath(f)] = NoCache]
            /\ w' = [w EXCEPT ![f].pc = "poll_folders", ![f].lease = FALSE]
            /\ fs' = fs
            /\ UNCHANGED <<checkpoint, pstate, folderitems>>
       ELSE IF ~(PollRefreshed(f, w[f].updated) \subseteq ServerUids(f))
       THEN \* line 640: the assert of _update_metadata fails
            /\ Crashed(f)
            /\ UNCHANGED <<checkpoint, pstate, folderitems, cache>>
       ELSE /\ folderitems' =
                 UpdateMetadata(folderitems, f, PollRefreshed(f, w[f].updated))
            /\ checkpoint' = UpdateValidity(checkpoint, f, w[f].fin.uv, w[f].fin.hms)
            /\ pstate' = Flush(fs)
            /\ w' = [w EXCEPT ![f].pc = "sleep", ![f].status = "poll"]
            /\ fs' = fs
            /\ UNCHANGED cache
    /\ UNCHANGED <<messages, threads, blobs>>
    /\ UNCHANGED <<td, inbox, event, sup, sync, folder_monitors, cmds, envvars, hvars>>

\* lines 323-326: poll_folders(c) has answered and initial_sync returns
W_PollFolders(f) ==
    /\ w[f].pc = "poll_folders"
    /\ Returned(f, IF f \notin PollFolders THEN "finish" ELSE "poll")
    /\ UNCHANGED <<pstate, checkpoint, messages, folderitems, threads, blobs, cache>>
    /\ UNCHANGED <<td, inbox, event, sup, sync, folder_monitors, cmds, envvars, hvars>>

\* lines 614-616: sleep(poll_frequency) is over; the with block ends and
\* poll returns
W_PollReturn(f) ==
    /\ w[f].pc = "sleep"
    /\ Returned(f, "poll")
    /\ UNCHANGED <<pstate, checkpoint, messages, folderitems, threads, blobs, cache>>
    /\ UNCHANGED <<td, inbox, event, sup, sync, folder_monitors, cmds, envvars, hvars>>

\* lines 212-214
W_Commit(f) ==
    /\ w[f].pc = "commit"
    /\ pstate' = Flush(fs)
    /\ w' = [w EXCEPT ![f].pc = IF w[f].state = "finish" THEN "done" ELSE "loop",
                      ![f].seen = {}, ![f].first = {}, ![f].redo = {}]
    /\ UNCHANGED <<fs, checkpoint, messages, folderitems, threads, blobs, cache>>
    /\ UNCHANGED <<td, inbox, event, sup, sync, folder_monitors, cmds, envvars, hvars>>

\* @retry: a socket error inside initial_sync or poll runs the handler again
W_Retry(f) ==
    /\ w[f].pc \in {"fetch", "end"}
    /\ env_left > 0
    /\ env_left' = env_left - 1
    /\ w' = [w EXCEPT ![f].pc = "loop", ![f].queue = <<>>, ![f].items = <<>>,
                      ![f].lease = FALSE]
    /\ UNCHANGED <<dbvars, td, inbox, event, sup, sync, folder_monitors, cmds>>
    /\ UNCHANGED <<provider, srv, hvars>>

(***************************************************************************)
(* ThreadDetector._run                                                      *)
(***************************************************************************)
\* line 158: inbox.get_nowait()
TD_Get ==
    /\ td.pc = "idle"
    /\ inbox # <<>>
    /\ td' = [td EXCEPT !.pc = "busy", !.f = Head(inbox).f, !.batch = Head(inbox).batch]
    /\ inbox' = Tail(inbox)
    /\ UNCHANGED <<w, event, sup, sync, folder_monitors, cmds, dbvars, envvars, hvars>>

\* Thread.from_message looks the thread id up before it creates a Thread
FromMessageFinds(t) == threads[t] > 0

\* the detector consulting its cache only
ThreadKnownInCache(t) == t \in td.cache

\* lines 160-165: the thread is in the batch's cache, or Thread.from_message
\* finds its row
ThreadKnown(t) == t \in td.cache \/ FromMessageFinds(t)

\* lines 159-165: the next message of the batch
TD_Message ==
    /\ td.pc = "busy"
    /\ td.batch # <<>>
    /\ LET t == Head(td.batch)
       IN  IF ThreadKnown(t)
           THEN td' = [td EXCEPT !.batch = Tail(td.batch), !.cache = td.cache \cup {t}]
           ELSE td' = [td EXCEPT !.pc = "create"]
    /\ UNCHANGED <<w, inbox, event, sup, sync, folder_monitors, cmds, dbvars, envvars, hvars>>

\* Thread.from_message found no row and inserts one
TD_Create ==
    /\ td.pc = "create"
    /\ LET t == Head(td.batch)
       IN  /\ threads' = [threads EXCEPT ![t] = threads[t] + 1]
           /\ td' = [td EXCEPT !.pc = "busy", !.batch = Tail(td.batch),
                               !.cache = td.cache \cup {t}]
    /\ UNCHANGED <<pstate, fs, checkpoint, messages, folderitems, blobs, cache>>
    /\ UNCHANGED <<w, inbox, event, sup, sync, folder_monitors, cmds, envvars, hvars>>

\* lines 166-167: clear_cache() and event.set()
TD_Done ==
    /\ td.pc = "busy"
    /\ td.batch = <<>>
    /\ td' = [td EXCEPT !.pc = "idle", !.cache = {}]
    /\ event' = [event EXCEPT ![td.f] = TRUE]
    /\ UNCHANGED <<w, inbox, sup, sync, folder_monitors, cmds, dbvars, envvars, hvars>>

(***************************************************************************)
(* MailSyncMonitor.sync                                                     *)
(***************************************************************************)
\* _thread_finished
ThreadFinished(state) == state = "finish"

\* _thread_polling taking a worker that has not loaded its state for polling
ThreadPollingOrNone(state) ==
    state = None \/ (Len(state) >= 4 /\ SubSeq(state, 1, 4) = "poll")

\* _thread_polling
ThreadPolling(state) ==
    state # None /\ Len(state) >= 4 /\ SubSeq(state, 1, 4) = "poll"

\* lines 712-716: the saved states and the folders to sync
S_Start ==
    /\ sync.pc = "init"
    /\ sync' = [sync EXCEPT !.pc = "spawn", !.saved = pstate]
    /\ UNCHANGED <<w, td, inbox, event, sup, folder_monitors, cmds>>
    /\ UNCHANGED <<dbvars, envvars, hvars>>

NextFolder(i) == IF i < Len(SyncFolders) THEN "spawn" ELSE "park"

\* lines 717-723: start the worker of the next folder, unless it has finished
S_Spawn ==
    /\ sync.pc = "spawn"
    /\ LET folder == SyncFolders[sync.idx]
       IN  IF sync.saved[folder] # "finish"
           THEN /\ w' = [w EXCEPT ![folder] = [NewWorker(folder) EXCEPT
                                                  !.pc = "start",
                                                  !.retry = w[folder].retry,
                                                  !.status = w[folder].status,
                                                  !.first = w[folder].first,
                                                  !.redo = w[folder].redo]]
                /\ folder_monitors' = Append(folder_monitors, folder)
                /\ sync' = [sync EXCEPT !.pc = "wait"]
           ELSE /\ sync' = [sync EXCEPT !.pc = NextFolder(sync.idx),
                                        !.idx = sync.idx + 1]
                /\ UNCHANGED <<w, folder_monitors>>
    /\ UNCHANGED <<td, inbox, event, sup, cmds, dbvars, envvars, hvars>>

\* lines 724-731: wait until the worker just started polls or has finished
S_Wait ==
    /\ sync.pc = "wait"
    /\ LET state == w[SyncFolders[sync.idx]].state
       IN  /\ ThreadPolling(state) \/ ThreadFinished(state)
           /\ folder_monitors' =
                IF ThreadFinished(state) /\ folder_monitors # <<>>
                THEN SubSeq(folder_monitors, 1, Len(folder_monitors) - 1)
                ELSE folder_monitors
    /\ sync' = [sync EXCEPT !.pc = NextFolder(sync.idx), !.idx = sync.idx + 1]
    /\ UNCHANGED <<w, td, inbox, event, sup, cmds, dbvars, envvars, hvars>>

(***************************************************************************)
(* MailSyncMonitor._run                                                     *)
(***************************************************************************)
\* process_command
ProcessCommand(cmd) == cmd # "shutdown"

\* lines 681-682
Sup_Command ==
    /\ sup.pc = "run"
    /\ cmds # <<>>
    /\ sup' = IF ProcessCommand(Head(cmds)) THEN sup
              ELSE [sup EXCEPT !.pc = "killing", !.ki = 1]
    /\ cmds' = Tail(cmds)
    /\ UNCHANGED <<w, td, inbox, event, sync, folder_monitors>>
    /\ UNCHANGED <<dbvars, envvars, hvars>>

\* lines 686-689: kill the folder monitors one after the other, then sync;
\* the kill unwinds the with block of a worker that holds a connection
Sup_Kill ==
    /\ sup.pc = "killing"
    /\ IF sup.ki <= Len(folder_monitors)
       THEN /\ w' = [w EXCEPT ![folder_monitors[sup.ki]].pc =
                        IF Alive(folder_monitors[sup.ki]) THEN "killed" ELSE @,
                               ![folder_monitors[sup.ki]].lease = FALSE]
            /\ sup' = [sup EXCEPT !.ki = sup.ki + 1]
            /\ sync' = sync
       ELSE /\ sync' = [sync EXCEPT !.pc = "killed"]
            /\ sup' = [sup EXCEPT !.pc = "exited"]
            /\ w' = w
    /\ UNCHANGED <<td, inbox, event, folder_monitors, cmds>>
    /\ UNCHANGED <<dbvars, envvars, hvars>>

(***************************************************************************)
(* The environment of one account.                                          *)
(***************************************************************************)
\* stop_sync line 831 puts "shutdown" into the supervisor's inbox
Stop ==
    /\ sup.pc = "run"
    /\ cmds = <<>>
    /\ env_left > 0
    /\ env_left' = env_left - 1
    /\ cmds' = <<"shutdown">>
    /\ UNCHANGED <<w, td, inbox, event, sup, sync, folder_monitors>>
    /\ UNCHANGED <<dbvars, provider, srv, hvars>>

\* a command other than "shutdown" arrives in the supervisor's inbox
OtherCommand ==
    /\ sup.pc = "run"
    /\ cmds = <<>>
    /\ env_left > 0
    /\ env_left' = env_left - 1
    /\ cmds' = <<"status">>
    /\ UNCHANGED <<w, td, inbox, event, sup, sync, folder_monitors>>
    /\ UNCHANGED <<dbvars, provider, srv, hvars>>

\* the distance by which a UIDVALIDITY change moves the UIDs of a folder
UidShift == 2

\* UIDNEXT of a folder: a UID is never given twice, whether or not the
\* messages that had the earlier ones are still there
NextUid(f) ==
    Cardinality(InitialMailbox(provider)[f].msgs) + 1 + UidShift * (srv[f].uv - 1)

Deliver(box, u, m) ==
    [box EXCEPT !.hms = box.hms + 1,
                !.msgs = box.msgs \cup {Msg(u, m, box.hms + 1)}]

\* message 3 arrives in the Inbox (and, on Gmail, in All Mail)
SrvNewMail ==
    /\ env_left > 0
    /\ \A f \in Folders : \A m \in srv[f].msgs : m.msgid # 3
    /\ env_left' = env_left - 1
    /\ srv' = [f \in Folders |->
                 IF f = "Inbox" \/ provider = "Gmail"
                 THEN Deliver(srv[f], NextUid(f), 3) ELSE srv[f]]
    /\ UNCHANGED <<wvars, dbvars, provider, hvars>>

\* the flags of message 1 change: in the Inbox and, on Gmail, in All Mail
SrvFlagChange ==
    /\ env_left > 0
    /\ \E m \in srv["Inbox"].msgs : m.msgid = 1
    /\ env_left' = env_left - 1
    /\ srv' = [f \in Folders |->
                 IF f = "Inbox" \/ provider = "Gmail"
                 THEN [srv[f] EXCEPT
                         !.hms = srv[f].hms + 1,
                         !.msgs = {IF m.msgid = 1 THEN Msg(m.uid, 1, srv[f].hms + 1)
                                   ELSE m : m \in srv[f].msgs}]
                 ELSE srv[f]]
    /\ UNCHANGED <<wvars, dbvars, provider, hvars>>

\* message 1 is removed from the Inbox (on Gmail it stays in All Mail); the
\* removal raises the folder's HIGHESTMODSEQ
SrvExpunge ==
    /\ env_left > 0
    /\ \E m \in srv["Inbox"].msgs : m.msgid = 1
    /\ env_left' = env_left - 1
    /\ srv' = [srv EXCEPT !["Inbox"] =
                 [srv["Inbox"] EXCEPT
                    !.hms = srv["Inbox"].hms + 1,
                    !.msgs = {m \in srv["Inbox"].msgs : m.msgid # 1}]]
    /\ UNCHANGED <<wvars, dbvars, provider, hvars>>


\* the server renumbers a folder: a new UIDVALIDITY, new UIDs, and a
\* HIGHESTMODSEQ below, at or above the old one
SrvUidValidity(f) ==
    /\ env_left > 0
    /\ env_left' = env_left - 1
    /\ \E d \in {-1, 0, 1} :
         srv' = [srv EXCEPT ![f] =
                   [uv |-> srv[f].uv + 1, hms |-> srv[f].hms + d,
                    msgs |-> {Msg(m.uid + UidShift, m.msgid, 1) : m \in srv[f].msgs}]]
    /\ UNCHANGED <<wvars, dbvars, provider, hvars>>

\* the SyncService process is restarted and starts the account's sync again:
\* every greenlet and the session are gone, the stores are kept
Restart ==
    /\ env_left > 0
    /\ env_left' = env_left - 1
    /\ w' = [f \in Folders |->
                [NewWorker(f) EXCEPT !.retry = IF w[f].lost # {} THEN w[f].lost
                                               ELSE w[f].retry,
                                     !.first = IF pstate[f] = "initial"
                                               THEN w[f].first ELSE {},
                                     !.redo = IF w[f].pc = "commit" /\ pstate[f] # w[f].state
                                              THEN {[state |-> w[f].state,
                                                     srv |-> x] : x \in w[f].seen}
                                              ELSE w[f].redo]]
    /\ td' = NewDetector
    /\ inbox' = <<>>
    /\ event' = [f \in Folders |-> FALSE]
    /\ sup' = NewSupervisor
    /\ sync' = NewSync
    /\ folder_monitors' = <<>>
    /\ cmds' = <<>>
    /\ fs' = pstate
    /\ UNCHANGED <<pstate, checkpoint, messages, folderitems, threads, blobs, cache>>
    /\ UNCHANGED <<provider, srv, hvars>>

Worker(f) ==
    \/ W_Load(f) \/ W_InitialSync(f) \/ W_Poll(f) \/ W_Lambda(f)
    \/ W_Download(f) \/ W_BlobFailure(f) \/ W_ChunkCommit(f)
    \/ W_OriginalFolderitems(f) \/ W_HandlerEnd(f) \/ W_PollFolders(f)
    \/ W_PollReturn(f) \/ W_Commit(f) \/ W_Retry(f)

Detector == TD_Get \/ TD_Message \/ TD_Create \/ TD_Done

Supervisor == S_Start \/ S_Spawn \/ S_Wait \/ Sup_Command \/ Sup_Kill

Environment ==
    \/ Stop \/ OtherCommand \/ SrvNewMail \/ SrvFlagChange \/ SrvExpunge
    \/ (\E f \in Folders : SrvUidValidity(f)) \/ Restart

Next == (\E f \in Folders : Worker(f)) \/ Detector \/ Supervisor \/ Environment

Spec == Init /\ [][Next]_vars

(***************************************************************************)
(* The greenlets of one account when the only events are new mail, removed   *)
(* messages, socket errors and restarts of the process.                     *)
(***************************************************************************)
\* events of the environment in SpecRerun
MaxRerunEnv == 3

InitRerun == InitAccountWith(MaxRerunEnv) /\ InitHosts /\ fn = NoCall

WorkerRerun(f) ==
    \/ W_Load(f) \/ W_InitialSync(f) \/ W_Poll(f) \/ W_Download(f)
    \/ W_ChunkCommit(f) \/ W_OriginalFolderitems(f) \/ W_HandlerEnd(f)
    \/ W_PollFolders(f) \/ W_PollReturn(f) \/ W_Commit(f) \/ W_Retry(f)

NextRerun ==
    \/ (\E f \in Folders : WorkerRerun(f)) \/ Detector
    \/ S_Start \/ S_Spawn \/ S_Wait
    \/ SrvNewMail \/ SrvExpunge \/ Restart

SpecRerun == InitRerun /\ [][NextRerun]_vars

(***************************************************************************)
(* The greenlets of one account under the cooperative scheduler, which runs *)
(* every greenlet that can take a step.  The events are new mail, a         *)
(* UIDVALIDITY change, a blob-store or network failure and an exception     *)
(* inside the ThreadDetector.                                               *)
(***************************************************************************)
\* events of the environment in SpecDetector
MaxDetectorEnv == 2

InitDetector == InitAccountWith(MaxDetectorEnv) /\ InitHosts /\ fn = NoCall

\* lines 159-165: update_from_message or Thread.from_message raises; _run
\* catches Empty only (line 168), so the greenlet ends with the batch taken
\* and its event unset
TD_Failure ==
    /\ td.pc \in {"busy", "create"}
    /\ td.batch # <<>>
    /\ env_left > 0
    /\ env_left' = env_left - 1
    /\ td' = [td EXCEPT !.pc = "dead"]
    /\ UNCHANGED <<w, inbox, event, sup, sync, folder_monitors, cmds>>
    /\ UNCHANGED <<dbvars, provider, srv, hvars>>

NextDetector ==
    \/ (\E f \in Folders : Worker(f))
    \/ Detector \/ TD_Failure
    \/ S_Start \/ S_Spawn \/ S_Wait
    \/ SrvNewMail \/ (\E f \in Folders : SrvUidValidity(f))

\* the steps of a worker inside a handler pass and at the commit of _run
WorkerProgress(f) ==
    \/ W_Load(f) \/ W_Download(f) \/ W_ChunkCommit(f) \/ W_OriginalFolderitems(f)
    \/ W_HandlerEnd(f) \/ W_PollFolders(f) \/ W_PollReturn(f) \/ W_Commit(f)

\* a worker at the top of its loop calls the handler of its state: for the
\* states initial and poll a handler step is enabled exactly when the worker
\* is at the top of the loop, and it leaves it
HandlerCalled(f) == []<>(w[f].pc # "loop")

\* every greenlet that can take a step is run at some time
Scheduler ==
    /\ WF_vars(Detector)
    /\ WF_vars(S_Start \/ S_Spawn \/ S_Wait)
    /\ \A f \in Folders : WF_vars(WorkerProgress(f)) /\ HandlerCalled(f)

SpecDetector == InitDetector /\ [][NextDetector]_vars /\ Scheduler

(***************************************************************************)
(* SyncService on two hosts that share the database: start_sync and         *)
(* stop_sync for one account.                                               *)
(***************************************************************************)
avars == <<wvars, dbvars, envvars, svc, fn>>

\* account.sync_lock(): the account-scoped lock; taking it while another host
\* holds it raises
SyncLock(h) == IF lock \in {Free, h} THEN h ELSE "raise"

\* account.sync_unlock()
SyncUnlock(h) == IF lock = h THEN Free ELSE lock

Return(h) == [rpc EXCEPT ![h].pc = "idle"]

\* lines 774-778: the query loads the account row
StartSync_Query(h) ==
    /\ rpc[h].pc = "idle"
    /\ rpc[h].calls < MaxCalls
    /\ rpc' = [rpc EXCEPT ![h] = [pc |-> "start", seen |-> sync_host,
                                  calls |-> rpc[h].calls + 1]]
    /\ UNCHANGED <<sync_host, lock, monitors, hsup, hcmd, avars>>

\* lines 780-796 and 801-806
StartSync_Monitor(h) ==
    /\ rpc[h].pc = "start"
    /\ IF rpc[h].seen # Null /\ rpc[h].seen # h
       THEN /\ rpc' = Return(h)
            /\ UNCHANGED <<lock, monitors, hsup>>
       ELSE IF ~monitors[h]
       THEN IF SyncLock(h) = "raise"
            THEN /\ rpc' = Return(h)
                 /\ UNCHANGED <<lock, monitors, hsup>>
            ELSE /\ lock' = SyncLock(h)
                 /\ hsup' = [hsup EXCEPT ![h] = hsup[h] + 1]
                 /\ monitors' = [monitors EXCEPT ![h] = TRUE]
                 /\ rpc' = [rpc EXCEPT ![h].pc = "start_commit"]
       ELSE /\ rpc' = Return(h)
            /\ UNCHANGED <<lock, monitors, hsup>>
    /\ UNCHANGED <<sync_host, hcmd, avars>>

\* lines 797-800
StartSync_Commit(h) ==
    /\ rpc[h].pc = "start_commit"
    /\ sync_host' = h
    /\ rpc' = Return(h)
    /\ UNCHANGED <<lock, monitors, hsup, hcmd, avars>>

\* lines 819-823
StopSync_Query(h) ==
    /\ rpc[h].pc = "idle"
    /\ rpc[h].calls < MaxCalls
    /\ rpc' = [rpc EXCEPT ![h] = [pc |-> "stop", seen |-> sync_host,
                                  calls |-> rpc[h].calls + 1]]
    /\ UNCHANGED <<sync_host, lock, monitors, hsup, hcmd, avars>>

\* lines 824-831 and 838-839
StopSync_Shutdown(h) ==
    /\ rpc[h].pc = "stop"
    /\ IF ~monitors[h] \/ rpc[h].seen # h
       THEN /\ rpc' = Return(h)
            /\ hcmd' = hcmd
       ELSE /\ hcmd' = [hcmd EXCEPT ![h] = hcmd[h] + 1]
            /\ rpc' = [rpc EXCEPT ![h].pc = "stop_commit"]
    /\ UNCHANGED <<sync_host, lock, monitors, hsup, avars>>

\* lines 832-837
StopSync_Commit(h) ==
    /\ rpc[h].pc = "stop_commit"
    /\ sync_host' = Null
    /\ lock' = SyncUnlock(h)
    /\ monitors' = [monitors EXCEPT ![h] = FALSE]
    /\ rpc' = Return(h)
    /\ UNCHANGED <<hsup, hcmd, avars>>

\* MailSyncMonitor._run lines 681-689 on host h: a supervisor takes "shutdown"
\* from its inbox, kills its workers and returns
Sup_Shutdown(h) ==
    /\ hsup[h] > 0
    /\ hcmd[h] > 0
    /\ hsup' = [hsup EXCEPT ![h] = hsup[h] - 1]
    /\ hcmd' = [hcmd EXCEPT ![h] = hcmd[h] - 1]
    /\ UNCHANGED <<sync_host, lock, monitors, rpc, avars>>

StartSync(h) == StartSync_Query(h) \/ StartSync_Monitor(h) \/ StartSync_Commit(h)

StopSync(h) == StopSync_Query(h) \/ StopSync_Shutdown(h) \/ StopSync_Commit(h)

NextHosts == \E h \in Hosts : StartSync(h) \/ StopSync(h) \/ Sup_Shutdown(h)

SpecHosts == Init /\ [][NextHosts]_vars

(***************************************************************************)
(* One SyncService and the accounts of the database: start_sync and         *)
(* stop_sync with and without an email address.                             *)
(***************************************************************************)
ovars == <<wvars, dbvars, envvars, sync_host, lock, monitors, hsup, hcmd, rpc, fn>>

\* email_address: None, an account's address, or an address of no account
Emails == {NoEmail} \cup Accounts \cup {MaxAccounts + 1}

\* lines 774-776 and 819-821: the accounts the query yields
Query(email) ==
    IF email = NoEmail THEN [i \in 1..MaxAccounts |-> i]
    ELSE IF email \in Accounts THEN <<email>> ELSE <<>>

\* a call arrives
Svc_Call(op, email) ==
    /\ svc.pc \in {"idle", "returned"}
    /\ svc.calls < MaxSvcCalls
    /\ svc' = [svc EXCEPT !.pc = op, !.op = op, !.arg = email, !.todo = Query(email),
                          !.results = [a \in Accounts |-> "none"],
                          !.ret = "none", !.had = svc.monitors, !.sent = {},
                          !.calls = svc.calls + 1]
    /\ UNCHANGED ovars

\* lines 801-804: what the except clause of start_sync does with an exception
StartSyncExcept == "raise"

\* lines 778-806: the loop body of start_sync for the next account; the lock,
\* the construction of the supervisor or the commit may fail
Svc_StartAccount ==
    /\ svc.pc = "start"
    /\ svc.todo # <<>>
    /\ LET a == Head(svc.todo)
           next == [svc EXCEPT !.todo = Tail(svc.todo)]
           failed(s) == IF StartSyncExcept = "raise"
                        THEN [s EXCEPT !.pc = "returned", !.ret = "exception"]
                        ELSE [s EXCEPT !.todo = Tail(svc.todo),
                                       !.results[a] = "ERROR error encountered"]
       IN  IF svc.sync_host[a] # Null /\ svc.sync_host[a] # ThisHost
           THEN svc' = [next EXCEPT !.results[a] = "Account is syncing on host"]
           ELSE IF a \notin svc.monitors
           THEN \E fail \in {"none", "lock", "monitor", "commit"} :
                  IF fail = "lock" \/ svc.locks[a] = OtherHost
                  THEN svc' = failed(svc)
                  ELSE IF fail = "monitor"
                  THEN svc' = failed([svc EXCEPT !.locks[a] = ThisHost])
                  ELSE IF fail = "commit"
                  THEN svc' = failed([svc EXCEPT !.locks[a] = ThisHost,
                                                 !.monitors = @ \cup {a},
                                                 !.running = @ \cup {a}])
                  ELSE svc' = [next EXCEPT !.locks[a] = ThisHost,
                                           !.monitors = @ \cup {a},
                                           !.running = @ \cup {a},
                                           !.sync_host[a] = ThisHost,
                                           !.results[a] = "OK sync started"]
           ELSE svc' = [next EXCEPT !.results[a] = "OK sync already started"]
    /\ UNCHANGED ovars

\* lines 823-839: the loop body of stop_sync for the next account; the commit
\* may fail; the supervisor that is sent "shutdown" ends (lines 681-689)
Svc_StopAccount ==
    /\ svc.pc = "stop"
    /\ svc.todo # <<>>
    /\ LET a == Head(svc.todo)
           next == [svc EXCEPT !.todo = Tail(svc.todo)]
       IN  IF a \notin svc.monitors
           THEN svc' = [svc EXCEPT !.pc = "returned",
                                   !.ret = "OK sync stopped already"]
           ELSE IF svc.sync_host[a] # ThisHost
           THEN svc' = [next EXCEPT !.results[a] = "ERROR error encountered"]
           ELSE \E fail \in {"none", "commit"} :
                  IF fail = "commit"
                  THEN svc' = [next EXCEPT !.sent = @ \cup {a},
                                           !.running = @ \ {a},
                                           !.results[a] = "ERROR error encountered"]
                  ELSE svc' = [next EXCEPT !.sent = @ \cup {a},
                                           !.running = @ \ {a},
                                           !.sync_host[a] = Null,
                                           !.locks[a] = Free,
                                           !.monitors = @ \ {a},
                                           !.results[a] = "OK sync stopped"]
    /\ UNCHANGED ovars

\* lines 807-812 and 840-845
Svc_Return ==
    /\ svc.pc \in {"start", "stop"}
    /\ svc.todo = <<>>
    /\ svc' = [svc EXCEPT !.pc = "returned",
                          !.ret = IF svc.arg = NoEmail THEN "map"
                                  ELSE IF svc.arg \in Accounts
                                          /\ svc.results[svc.arg] # "none"
                                  THEN svc.results[svc.arg]
                                  ELSE "OK no such user"]
    /\ UNCHANGED ovars

\* the other host starts or stops the sync of an account this host does not own
Svc_OtherHost(a) ==
    /\ svc.pc \in {"idle", "returned"}
    /\ a \notin svc.monitors
    /\ svc.locks[a] # ThisHost
    /\ svc' = IF svc.sync_host[a] = Null
              THEN [svc EXCEPT !.sync_host[a] = OtherHost, !.locks[a] = OtherHost]
              ELSE [svc EXCEPT !.sync_host[a] = Null, !.locks[a] = Free]
    /\ UNCHANGED ovars

\* lines 679 and 692-693: the sync greenlet of a supervisor has ended with an
\* exception, and the supervisor raises it and ends
Svc_SupervisorEnds(a) ==
    /\ a \in svc.running
    /\ svc' = [svc EXCEPT !.running = @ \ {a}]
    /\ UNCHANGED ovars

NextService ==
    \/ \E op \in {"start", "stop"}, email \in Emails : Svc_Call(op, email)
    \/ \E a \in Accounts : Svc_SupervisorEnds(a)
    \/ Svc_StartAccount
    \/ Svc_StopAccount
    \/ Svc_Return
    \/ \E a \in Accounts : Svc_OtherHost(a)

SpecService == Init /\ [][NextService]_vars

(***************************************************************************)
(* _remove_deleted_messages as a function of the FolderItem rows, the       *)
(* folder of the worker and its two arguments.                              *)
(***************************************************************************)
\* the largest UID of the inputs
MaxUid == 2

\* FolderItem rows of both folders, as their workers created them
RemoveItems == {FolderItem(f, u, u, f, 1) : f \in Folders, u \in 1..MaxUid}

InitRemove ==
    /\ InitAccount
    /\ InitHosts
    /\ \E fis \in SUBSET RemoveItems, f \in Folders,
          local_uids \in SUBSET (1..MaxUid), remote_uids \in SUBSET (1..MaxUid) :
            fn = [pc |-> "call", folder_name |-> f, before |-> fis,
                  local_uids |-> local_uids, remote_uids |-> remote_uids]

\* lines 618-635
RemoveDeletedMessages ==
    /\ fn.pc = "call"
    /\ fn' = [pc |-> "returned", folder_name |-> fn.folder_name,
              before |-> fn.before,
              local_uids |-> fn.local_uids, remote_uids |-> fn.remote_uids,
              after |-> RemoveDeleted(fn.before, fn.local_uids, fn.remote_uids,
                                      fn.folder_name),
              ret |-> ToDelete(fn.local_uids, fn.remote_uids)]
    /\ UNCHANGED <<wvars, dbvars, envvars>>
    /\ UNCHANGED <<sync_host, lock, monitors, hsup, hcmd, rpc, svc>>

NextRemove == RemoveDeletedMessages

SpecRemove == InitRemove /\ [][NextRemove]_vars

(***************************************************************************)
(* _deduplicate_message_download as a function of the Message and           *)
(* FolderItem rows, the selected folder and the UIDs it is given.           *)
(***************************************************************************)
\* Message rows an earlier pass may have stored
DedupMessages == {[msgid |-> m.msgid, by |-> AllMail] : m \in srv[AllMail].msgs}

\* FolderItem rows an earlier pass may have created
DedupItems ==
    UNION {{FolderItem(f, m.uid, m.msgid, f, m.modseq) : m \in srv[f].msgs} :
             f \in Folders}

InitDedup ==
    /\ provider \in {"Gmail", "IMAP"}
    /\ srv = InitialMailbox(provider)
    /\ env_left = 0
    /\ pstate = [f \in Folders |-> NoRow]
    /\ fs = [f \in Folders |-> NoRow]
    /\ checkpoint = [f \in Folders |-> NoCk]
    /\ messages \in SUBSET DedupMessages
    /\ folderitems \in {fis \in SUBSET DedupItems :
                            \A i \in fis : i.msgid \in {m.msgid : m \in messages}}
    /\ threads = [t \in Thrids |-> 0]
    /\ blobs = {m.msgid : m \in messages}
    /\ cache = [k \in CacheKeys |-> NoCache]
    /\ w = [f \in Folders |-> NewWorker(f)]
    /\ td = NewDetector
    /\ inbox = <<>>
    /\ event = [f \in Folders |-> FALSE]
    /\ sup = NewSupervisor
    /\ sync = NewSync
    /\ folder_monitors = <<>>
    /\ cmds = <<>>
    /\ InitHosts
    /\ \E f \in Folders, sel \in Folders :
          \E uids \in SUBSET ServerUids(sel) :
            fn = [pc |-> "call", folder_name |-> f, selected |-> sel,
                  remote_g_metadata |-> GMetadata(sel, ServerUids(sel)),
                  uids |-> uids]

\* lines 562-574
DeduplicateMessageDownload ==
    /\ fn.pc = "call"
    /\ folderitems' = DedupFolderitems(folderitems, fn.remote_g_metadata, fn.uids,
                                       fn.selected, fn.folder_name)
    /\ fn' = [pc |-> "returned", folder_name |-> fn.folder_name,
              selected |-> fn.selected,
              remote_g_metadata |-> fn.remote_g_metadata, uids |-> fn.uids,
              before |-> folderitems,
              folderitem_only |-> FolderitemOnly(fn.remote_g_metadata, fn.uids),
              ret |-> FullDownload(fn.remote_g_metadata, fn.uids)]
    /\ UNCHANGED <<pstate, fs, checkpoint, messages, threads, blobs, cache>>
    /\ UNCHANGED <<wvars, envvars>>
    /\ UNCHANGED <<sync_host, lock, monitors, hsup, hcmd, rpc, svc>>

NextDedup == DeduplicateMessageDownload

SpecDedup == InitDedup /\ [][NextDedup]_vars

(***************************************************************************)
(* GmailAccount.new_token and GTokenManager (models/backends/gmail.py).     *)
(* The state is held in fn: the auth_credentials of every account, the      *)
(* _tokens of g_token_manager, the clock, and the last call with its        *)
(* result.                                                                  *)
(***************************************************************************)
\* auth_credentials of an account, calls made to g_token_manager, and the
\* clock's last value
MaxCreds      == 2
MaxTokenCalls == 3
MaxTime          == 20

GOOGLE_CALENDAR_SCOPE == "calendar"
GOOGLE_EMAIL_SCOPE    == "email"
Scopes == {GOOGLE_EMAIL_SCOPE, GOOGLE_CALENDAR_SCOPE}

\* GmailAccount.id, a primary key
GmailAccounts == {1, 2}

\* seconds the clock advances in one step, and the expires_in values the
\* authorization server answers with
ClockStep == 10
ExpiresIn == {20}

NoToken == [value |-> 0]

\* what auth_handler.new_token does for a refresh token
HandlerAnswers ==
    {[kind |-> "token", expires_in |-> e] : e \in ExpiresIn}
    \cup {[kind |-> "OAuthError"], [kind |-> "Exception"]}

GToken(value, expiration, scopes, auth_creds_id) ==
    [value |-> value, expiration |-> expiration, scopes |-> scopes,
     auth_creds_id |-> auth_creds_id]

\* every auth_credentials row, valid or not
AllAuthCredentials(creds) == creds

\* GmailAccount.valid_auth_credentials
ValidAuthCredentials(creds) == SelectSeq(creds, LAMBDA c : c.is_valid)

\* the loop of new_token over the credentials still to try; creds is the
\* account's auth_credentials, value the token the server would issue
RECURSIVE NewTokenLoop(_, _, _, _, _, _, _)
NewTokenLoop(todo, creds, scope, handler, now, value, non_oauth_error) ==
    IF todo = <<>>
    THEN [kind  |-> "raise",
          error |-> IF non_oauth_error # None THEN non_oauth_error
                    ELSE <<"OAuthError", 0>>,
          creds |-> creds]
    ELSE LET auth_creds == Head(todo)
             answer     == handler[auth_creds.id]
         IN  IF scope \notin auth_creds.scopes
             THEN NewTokenLoop(Tail(todo), creds, scope, handler, now, value,
                               non_oauth_error)
             ELSE IF answer.kind = "token"
             THEN [kind   |-> "return",
                   gtoken |-> GToken(value, now + (answer.expires_in - 10),
                                     auth_creds.scopes, auth_creds.id),
                   creds  |-> creds]
             ELSE IF answer.kind = "OAuthError"
             THEN NewTokenLoop(Tail(todo),
                               [creds EXCEPT ![auth_creds.id].is_valid = FALSE],
                               scope, handler, now, value, non_oauth_error)
             ELSE NewTokenLoop(Tail(todo), creds, scope, handler, now, value,
                               <<"Exception", auth_creds.id>>)

\* GmailAccount.new_token(scope)
NewToken(creds, scope, handler, now, value) ==
    NewTokenLoop(ValidAuthCredentials(creds), creds, scope, handler, now, value,
                 None)

\* datetime.utcnow() < gtoken.expiration
TokenFreshInclusive(gtoken, now) == now <= gtoken.expiration

TokenFresh(gtoken, now) == now < gtoken.expiration

\* GTokenManager.cache_token
CacheToken(tokens, account, gtoken) ==
    [tokens EXCEPT ![account] =
        [s \in Scopes |-> IF s \in gtoken.scopes THEN gtoken ELSE tokens[account][s]]]

\* the rows an account may have: row i has id i
CredRows(i) ==
    {[id |-> i, scopes |-> ss, is_valid |-> v] :
        ss \in (SUBSET Scopes) \ {{}}, v \in BOOLEAN}

CredLists ==
    UNION {{l \in [1..n -> UNION {CredRows(i) : i \in 1..n}] :
               \A i \in 1..n : l[i].id = i} : n \in 1..MaxCreds}

\* new_token as a function of the account's auth_credentials, the scope and
\* the answers of the authorization server
InitNewToken ==
    /\ InitAccount
    /\ InitHosts
    /\ \E cs \in CredLists :
          fn = [pc |-> "idle", creds |-> cs, now |-> 0, issued |-> 0,
                last |-> NoCall]

\* account.new_token(scope) with the answers the server gives this time; the
\* function is called once and then once more
T_NewTokenWith(scope, handler) ==
    /\ fn.pc \in {"idle", "called"}
    /\ LET r == NewToken(fn.creds, scope, handler, fn.now, fn.issued + 1)
       IN  fn' = [fn EXCEPT
                    !.pc = IF fn.pc = "idle" THEN "called" ELSE "again",
                    !.creds = r.creds,
                    !.issued = IF r.kind = "return" THEN fn.issued + 1
                               ELSE fn.issued,
                    !.last = [op |-> "new_token", scope |-> scope,
                              before |-> fn.creds, result |-> r]]
    /\ UNCHANGED <<wvars, dbvars, envvars>>
    /\ UNCHANGED <<sync_host, lock, monitors, hsup, hcmd, rpc, svc>>

T_NewToken(scope) ==
    \E handler \in [1..Len(fn.creds) -> HandlerAnswers] :
        T_NewTokenWith(scope, handler)

NextNewToken == \E s \in Scopes : T_NewToken(s)

SpecNewToken == InitNewToken /\ [][NextNewToken]_vars

\* GTokenManager with two accounts: the first has a credential for mail and
\* one for mail and calendar, the second one for both
TokenCreds ==
    [a \in GmailAccounts |->
        IF a = 1
        THEN <<[id |-> 1, scopes |-> {GOOGLE_EMAIL_SCOPE}, is_valid |-> TRUE],
               [id |-> 2, scopes |-> Scopes, is_valid |-> TRUE]>>
        ELSE <<[id |-> 1, scopes |-> Scopes, is_valid |-> TRUE]>>]

InitToken ==
    /\ InitAccount
    /\ InitHosts
    /\ fn = [pc     |-> "idle",
             creds  |-> TokenCreds,
             tokens |-> [a \in GmailAccounts |-> [s \in Scopes |-> NoToken]],
             now    |-> 0,
             issued |-> 0,
             calls  |-> 0,
             last   |-> NoCall]

\* the call of line 50 and what follows it
T_Refresh(account, scope, force_refresh, handler) ==
    LET r == NewToken(fn.creds[account], scope, handler, fn.now, fn.issued + 1)
    IN  fn' = [fn EXCEPT
                 !.creds[account] = r.creds,
                 !.tokens = IF r.kind = "return"
                            THEN CacheToken(fn.tokens, account, r.gtoken)
                            ELSE fn.tokens,
                 !.issued = IF r.kind = "return" THEN fn.issued + 1
                            ELSE fn.issued,
                 !.calls = fn.calls + 1,
                 !.last = [op |-> "get_token", account |-> account,
                           scope |-> scope, force |-> force_refresh,
                           before |-> fn.tokens, at |-> fn.now,
                           new_token |-> TRUE,
                           result |-> IF r.kind = "return"
                                      THEN [kind |-> "return",
                                            value |-> r.gtoken.value,
                                            gtoken |-> r.gtoken]
                                      ELSE [kind |-> "raise",
                                            error |-> r.error]]]

\* GTokenManager.get_token(account, scope, force_refresh), lines 41-56
T_GetToken(account, scope, force_refresh) ==
    /\ fn.calls < MaxTokenCalls
    /\ LET gtoken == fn.tokens[account][scope]
       IN  IF ~force_refresh /\ gtoken # NoToken /\ TokenFresh(gtoken, fn.now)
           THEN fn' = [fn EXCEPT
                         !.calls = fn.calls + 1,
                         !.last = [op |-> "get_token", account |-> account,
                                   scope |-> scope, force |-> force_refresh,
                                   before |-> fn.tokens, at |-> fn.now,
                                   new_token |-> FALSE,
                                   result |-> [kind |-> "return",
                                               value |-> gtoken.value,
                                               gtoken |-> gtoken]]]
           ELSE \E handler \in [1..Len(fn.creds[account]) -> HandlerAnswers] :
                  T_Refresh(account, scope, force_refresh, handler)
    /\ UNCHANGED <<wvars, dbvars, envvars>>
    /\ UNCHANGED <<sync_host, lock, monitors, hsup, hcmd, rpc, svc>>

\* GTokenManager.clear_cache(account)
T_ClearCache(account) ==
    /\ fn.calls < MaxTokenCalls
    /\ fn' = [fn EXCEPT
                !.tokens[account] = [s \in Scopes |-> NoToken],
                !.calls = fn.calls + 1,
                !.last = [op |-> "clear_cache", account |-> account,
                          before |-> fn.tokens]]
    /\ UNCHANGED <<wvars, dbvars, envvars>>
    /\ UNCHANGED <<sync_host, lock, monitors, hsup, hcmd, rpc, svc>>

\* time passes between two calls
T_Clock ==
    /\ fn.now < MaxTime
    /\ fn' = [fn EXCEPT !.now = fn.now + ClockStep]
    /\ UNCHANGED <<wvars, dbvars, envvars>>
    /\ UNCHANGED <<sync_host, lock, monitors, hsup, hcmd, rpc, svc>>

NextToken ==
    \/ \E a \in GmailAccounts, s \in Scopes, force \in BOOLEAN : T_GetToken(a, s, force)
    \/ \E a \in GmailAccounts : T_ClearCache(a)
    \/ T_Clock

SpecToken == InitToken /\ [][NextToken]_vars

(***************************************************************************)
(* The claims.                                                              *)
(***************************************************************************)
UidInvalidStates == {"initial uidinvalid", "poll uidinvalid"}
StoredMsgids == {m.msgid : m \in messages}
Queued(f) == UNION {Range(w[f].queue[i]) : i \in 1..Len(w[f].queue)}

\* C1 as stated: the persisted state and the in-memory state of every worker
\* the supervisor has created are among the five states, at every moment.
C1_StateAlwaysInSet ==
    \A f \in Folders :
        /\ pstate[f] \in States \cup {NoRow}
        /\ w[f].pc # "unborn" => w[f].state \in States

\* C1 amended: the persisted state is always one of the five states; the
\* in-memory state is None until the worker has loaded its row and one of the
\* five states from then on.
C1_StateInSetOnceLoaded ==
    \A f \in Folders :
        /\ pstate[f] \in States \cup {NoRow}
        /\ fs[f] \in States \cup {NoRow}
        /\ w[f].state \in States \cup {None}
        /\ w[f].state = None <=> (w[f].pc \in {"unborn", "start"}
                                  \/ (w[f].pc = "killed" /\ w[f].state = None))
        /\ w[f].pc \in {"loop", "fetch", "wait", "orig", "end", "poll_folders",
                        "sleep", "commit",
                       "done", "crashed"}
              => w[f].state \in States

\* C1 witness: one worker sits in a uidinvalid state that is persisted while
\* another has been started and has not loaded its row yet.
C1_Witness ==
    \E f, g \in Folders :
        /\ w[f].state \in UidInvalidStates /\ pstate[f] = w[f].state
        /\ w[g].pc = "start" /\ w[g].state = None

\* C2 as stated (safety part): an initial sync that met no UIDVALIDITY
\* mismatch and no blob failure does not end in an error, whatever the number
\* of UIDs it had to download.
C2_InitialSyncCompletes ==
    \A f \in Folders :
        (w[f].state = "initial" /\ env_left = MaxEnv)
            => w[f].pc # "crashed"

\* C3: once the callback has signalled a mismatch in state initial (poll),
\* the worker is neither retried nor ended: it is about to commit, or has
\* committed, initial uidinvalid (poll uidinvalid).
C3_UidInvalidIsATransition ==
    \A f \in Folders :
        w[f].raised # None =>
            /\ w[f].raised \in {"initial", "poll"}
            /\ w[f].state = (IF w[f].raised = "initial" THEN "initial uidinvalid"
                             ELSE "poll uidinvalid")
            /\ \/ w[f].pc \in {"commit", "killed"}
               \/ pstate[f] = w[f].state

\* C3 witness: a mismatch signalled in state poll has been committed.
C3_Witness ==
    \E f \in Folders :
        /\ w[f].raised = "poll" /\ pstate[f] = "poll uidinvalid"
        /\ w[f].pc # "commit"

\* C4 as stated (safety part): a worker in a uidinvalid state keeps running.
C4_ResyncKeepsRunning ==
    \A f \in Folders : w[f].state \in UidInvalidStates => w[f].pc # "crashed"

\* C5 as stated: a poll cycle that runs while the remote UIDVALIDITY differs
\* from the checkpoint's moves the worker to poll uidinvalid.
C5_PollDetectsUidValidity ==
    [][\A f \in Folders :
          (W_Poll(f) /\ checkpoint[f] # NoCk /\ srv[f].uv # checkpoint[f].uv)
              => w'[f].state = "poll uidinvalid"]_vars

\* C6: of the workers a supervisor has started, at most one has not yet left
\* the initial states.
C6_OneInitialAtATime ==
    Cardinality({f \in Folders :
        /\ w[f].pc # "unborn"
        /\ w[f].state \in {None, "initial", "initial uidinvalid"}}) <= 1

\* C6 witness: the second worker runs its initial sync while the first polls.
C6_Witness ==
    \E f, g \in Folders :
        /\ w[f].state = "initial" /\ w[f].pc = "fetch"
        /\ w[g].state = "poll" /\ Alive(g)

\* C7: no thread id has more than one Thread row.
C7_OneThreadPerThrid == \A t \in Thrids : threads[t] <= 1

\* C7 witness: the detector is about to insert the Thread of a thread id while
\* a batch of another folder holding the same thread id waits in its inbox.
C7_Witness ==
    /\ td.pc = "create"
    /\ \E i \in 1..Len(inbox) :
         inbox[i].f # td.f /\ Head(td.batch) \in Range(inbox[i].batch)

MessagesBy(f) == {m \in messages : m.by = f}
FolderitemsBy(f) == {i \in folderitems : i.by = f}

C8_Durable ==
    /\ \A m \in messages : m.msgid \in blobs /\ threads[ThridOf(m.msgid)] >= 1
    /\ \A i \in folderitems : i.msgid \in StoredMsgids

C8_NotEarlier ==
    \A f \in Folders :
        (w[f].pc = "fetch" \/ (w[f].pc = "wait" /\ ~event[f]))
            => /\ MessagesBy(f)' \subseteq MessagesBy(f)
               /\ FolderitemsBy(f)' \subseteq FolderitemsBy(f)

\* C8: every committed Message and FolderItem has its parts in the blob store
\* and its thread assigned, and no step of any task commits a row of a worker
\* that is saving the parts of a chunk or waiting for the event of its batch.
C8_CommitAfterBlobsAndThreads == [](C8_Durable) /\ [][C8_NotEarlier]_vars

\* C8 witness: a worker waits for the detector with a chunk while earlier
\* messages are committed.
C8_Witness ==
    /\ messages # {}
    /\ \E f \in Folders : w[f].pc = "wait" /\ ~event[f] /\ w[f].items # <<>>

C9_Abort ==
    \A f \in Folders :
        w[f].lost # {} =>
            /\ w[f].pc = "crashed"
            /\ pstate[f] = w[f].state
            /\ \A m \in Msgs(w[f].items) :
                 /\ [msgid |-> m, by |-> f] \notin messages
                 /\ \A i \in folderitems : ~(i.by = f /\ i.msgid = m)
            /\ \A i \in 1..Len(inbox) : inbox[i].f # f
            /\ td.pc # "idle" => td.f # f

\* the UIDs of the failed chunk that the selected folder still has, whose
\* message is not stored and whose thread the worker's folder still holds
C9_Retry ==
    \A f \in Folders :
        (w[f].retry # {} /\ w[f].pc = "loop" /\ w'[f].pc \in {"fetch", "end"}) =>
            \A u \in w[f].retry :
                (/\ u \in ServerUids(w'[f].sel)
                 /\ MsgidOf(GMetadata(w'[f].sel, {u}), u) \notin StoredMsgids
                 /\ \E x \in srv[f].msgs :
                       ThridOf(x.msgid) =
                           ThridOf(MsgidOf(GMetadata(w'[f].sel, {u}), u)))
                    => u \in Queued(f)'

\* C9: a blob failure ends the worker with nothing of the chunk committed, no
\* batch handed to the detector and the persisted state as it was; the worker
\* started after a restart plans the download of the same UIDs again.
C9_BlobFailureAbortsChunk == [](C9_Abort) /\ [][C9_Retry]_vars

\* C9 witness: after a blob failure and a restart the worker is about to
\* fetch the UIDs of the chunk that failed.
C9_Witness ==
    \E f \in Folders :
        w[f].retry # {} /\ w[f].pc = "fetch" /\ w[f].retry \subseteq Queued(f)

\* C10 as stated: at every moment at most one host has a running supervisor
\* (with its folder workers) for the account.
C10_OneHostAtATime == Cardinality({h \in Hosts : hsup[h] > 0}) <= 1

\* C11 as stated: on one host at most one supervisor of the account (and so
\* at most one worker per folder) is running at any moment, also when
\* start_sync follows a stop_sync that has returned.
C11_OneSupervisorPerHost == \A h \in Hosts : hsup[h] <= 1

\* C12 as stated: when stop_sync without an email address has returned, every
\* account that had a supervisor in the registry has been sent shutdown,
\* whether or not another account of the iteration had none.
C12_StopAllStopsAll ==
    (svc.pc = "returned" /\ svc.op = "stop" /\ svc.arg = NoEmail)
        => svc.had \subseteq svc.sent

\* the results the RPC surface documents
DocumentedResults ==
    {"OK sync started", "OK sync already started", "OK no such user",
     "ERROR error encountered", "Account is syncing on host",
     "OK sync stopped", "OK sync stopped already"}

\* C13 as stated: every call of start_sync and stop_sync returns a documented
\* result string or a map of them, never an exception.
C13_ResultNeverAnException ==
    svc.pc = "returned" => svc.ret \in DocumentedResults \cup {"map"}

C14_AllStopped ==
    sup.pc = "exited" => (sync.pc = "killed" /\ \A f \in Folders : ~Alive(f))

C14_OtherCommand ==
    (Sup_Command /\ Head(cmds) # "shutdown")
        => (sup' = sup /\ sync' = sync /\ w' = w /\ folder_monitors' = folder_monitors)

\* C14 as stated: once a supervisor that received shutdown has exited, its
\* sync task is dead and none of its folder workers is running, whenever the
\* shutdown arrived; a command other than shutdown changes neither the
\* supervisor nor its workers.
C14_ShutdownStopsWorkers == [](C14_AllStopped) /\ [][C14_OtherCommand]_vars

C15_CommitPoint ==
    \A f \in Folders :
        W_Commit(f) => (w[f].state \in States /\ pstate'[f] = w[f].state)

C15_StartPoint ==
    \A f \in Folders :
        W_Load(f) => w'[f].state = (IF pstate[f] = NoRow THEN "initial" ELSE pstate[f])

\* C15: the commit of the worker loop leaves the persisted state equal to the
\* state the handler returned (or the uidinvalid state chosen for UIDInvalid),
\* and a worker starts in the persisted state, or in initial without a row.
C15_CommittedStateIsReturned == [][C15_CommitPoint /\ C15_StartPoint]_vars

\* C15 witness: a worker started after a restart has loaded the uidinvalid
\* state an earlier worker committed.
C15_Witness ==
    \E f \in Folders :
        /\ w[f].pc = "loop" /\ w[f].raised = None
        /\ w[f].state \in UidInvalidStates /\ pstate[f] = w[f].state

\* an initial_sync pass of f on the server content that a completed
\* initial_sync pass of f has already seen
SecondRun(f) == fs[f] = "initial" /\ srv \in w[f].first

C16_Plan ==
    \A f \in Folders :
        (W_InitialSync(f) /\ SecondRun(f)) =>
            /\ w'[f].pc = "end"
            /\ messages' = messages /\ folderitems' = folderitems
            /\ blobs' = blobs /\ checkpoint' = checkpoint
            /\ \A k \in CacheKeys \ {CacheKeyPath(f)} : cache'[k] = cache[k]

C16_End ==
    \A f \in Folders :
        (W_HandlerEnd(f) /\ SecondRun(f)) =>
            /\ cache'[CacheKeyPath(f)] = NoCache
            /\ \A k \in CacheKeys \ {CacheKeyPath(f)} : cache'[k] = cache[k]
            /\ messages' = messages /\ folderitems' = folderitems
            /\ blobs' = blobs /\ checkpoint' = checkpoint

C16_NoDownload ==
    \A f \in Folders :
        (fs[f] = "initial" /\ w[f].first # {} /\ w[f].seen = w[f].first) =>
            w[f].pc \notin {"fetch", "wait"}

\* C16 as stated: an initial_sync pass on the server content a completed
\* pass has already seen fetches nothing, creates and deletes no row, puts no
\* blob, keeps the checkpoint, and ends with the folder's remote_g_metadata
\* entry removed again.
C16_SecondInitialSyncChangesNothing ==
    [](C16_NoDownload) /\ [][C16_Plan /\ C16_End]_vars

\* C17 as stated: whenever the new state a handler returned was lost with the
\* process, the worker started next commits that same state.
C17_KillBeforeCommit ==
    [][\A f \in Folders :
          W_Commit(f) => \A r \in w[f].redo : pstate'[f] = r.state]_vars

C18_Gone == fn.local_uids \ fn.remote_uids

\* C18: _remove_deleted_messages(L, R) returns L \ R and removes exactly the
\* FolderItems of the worker's folder whose UID is in L \ R; those with a UID
\* in L \cap R, and those of other folders, stay as they were.
C18_RemovesExactlyTheDifference ==
    fn.pc = "returned" =>
        /\ fn.ret = C18_Gone
        /\ fn.before \ fn.after =
             {i \in fn.before : i.folder = fn.folder_name /\ i.uid \in C18_Gone}
        /\ fn.after \subseteq fn.before
        /\ \A i \in fn.after : ~(i.folder = fn.folder_name /\ i.uid \in C18_Gone)
        /\ \A i \in fn.before :
             (i.folder = fn.folder_name /\ i.uid \in fn.local_uids \cap fn.remote_uids)
                 => i \in fn.after
        /\ \A i \in fn.before : i.folder # fn.folder_name => i \in fn.after

\* C18 witness: a call that removed a row of its folder and kept a row of
\* its folder, with a row of the other folder that has a removed UID.
C18_Witness ==
    /\ fn.pc = "returned"
    /\ fn.before # fn.after
    /\ \E i \in fn.after : i.folder = fn.folder_name /\ i.uid \in fn.remote_uids
    /\ \E i \in fn.after : i.folder # fn.folder_name /\ i.uid \in fn.ret

\* C19: every FolderItem row refers to a Message row that exists.
C19_FolderItemHasMessage ==
    \A i \in folderitems : \E m \in messages : m.msgid = i.msgid

\* C19 witness: a Gmail account with a FolderItem that _add_new_folderitem
\* attached to a message another worker had stored, and a FolderItem of the
\* original folder of an expanded thread.
C19_Witness ==
    /\ provider = "Gmail"
    /\ \E i \in folderitems, m \in messages : m.msgid = i.msgid /\ m.by # i.by
    /\ \E i \in folderitems : i.folder # AllMail

\* C20 as stated, its part on flags: when a poll pass that applied a MODSEQ
\* delta ends, every changed UID that was already local, and is still on the
\* server, has the flags the server has for it.
C20_PollRefreshesFlags ==
    [][\A f \in Folders :
          (W_HandlerEnd(f) /\ fs[f] = "poll" /\ w'[f].pc = "sleep") =>
              \A i \in folderitems' :
                  (i.folder = f /\ i.uid \in w[f].updated /\ i.uid \in ServerUids(f))
                      => i.flags = Flags(f, i.uid)]_vars

\* C21 as stated, its part on folder items: when initial_sync of a Gmail folder
\* other than All Mail completes on a server that has not changed since the
\* pass selected the folder, every UID the server has in the folder has a
\* FolderItem in that folder with that UID, its message and the folder's flags.
C21_ExpandedSyncCoversFolder ==
    [][\A f \in Folders :
          (/\ W_HandlerEnd(f) /\ fs[f] = "initial" /\ IsExpanded(f)
           /\ srv \in w[f].seen)
              => \A m \in srv[f].msgs :
                    \E i \in folderitems' :
                        /\ i.folder = f /\ i.uid = m.uid
                        /\ i.msgid = m.msgid /\ i.flags = m.modseq]_vars

\* C22 as stated: when initial_sync of a folder completes, the cache holds no
\* remote_g_metadata map of that folder under either key the worker writes.
C22_CacheDiscardedOnCompletion ==
    [][\A f \in Folders :
          (W_HandlerEnd(f) /\ fs[f] = "initial")
              => /\ cache'[CacheKeyPath(f)] = NoCache
                 /\ cache'[CacheKeyJoined(f)] = NoCache]_vars

\* the worker is inside the with block of a handler and is not sleeping
InsidePass(f) == w[f].pc \in {"fetch", "wait", "orig", "end"}

\* C23 as stated: a worker holds a connection only while a handler pass is
\* at work; it holds none once the pass has returned, raised or been killed,
\* and none while it sleeps for poll_frequency.
C23_LeaseOnlyDuringPass == \A f \in Folders : w[f].lease => InsidePass(f)

\* initial_sync of f is about to reuse a cached map that is older than the
\* server's HIGHESTMODSEQ (lines 257-261 and 399-403)
ResumesFromStaleCache(f) ==
    /\ ~UIDInvalidRaised(checkpoint, f)
    /\ checkpoint[f] # NoCk
    /\ cache[CacheKeyPath(f)] # NoCache
    /\ srv[f].hms > checkpoint[f].hms

\* C24 as stated: when initial_sync resumes from a cached map and the server's
\* HIGHESTMODSEQ is above the checkpoint's, the map written back and used for
\* the rest of the pass has exactly the server's UIDs of the folder as keys,
\* each with its msgid, and every local UID changed since the checkpoint that
\* is still on the server has the server's flags.
C24_CachedMapBroughtUpToDate ==
    [][\A f \in Folders :
          (W_InitialSync(f) /\ ResumesFromStaleCache(f)) =>
              /\ cache'[CacheKeyJoined(f)] = GMetadata(f, ServerUids(f))
              /\ \A i \in folderitems' :
                    (/\ i.folder = f
                     /\ i.uid \in NewAndUpdatedUids(f, checkpoint[f].hms))
                        => i.flags = Flags(f, i.uid)]_vars

\* C25 as stated: the worker writes a folder's map under the key it reads
\* and removes; after initial_sync has updated a cached map no map of the
\* folder lies under another key, and the entry the next get returns is the
\* updated one, which has no UID that has left the server.
C25_WrittenBackMapIsReadBack ==
    [][\A f \in Folders :
          (W_InitialSync(f) /\ ResumesFromStaleCache(f)) =>
              /\ cache'[CacheKeyJoined(f)] = NoCache
              /\ Uids(cache'[CacheKeyPath(f)]) \subseteq ServerUids(f)]_vars

\* the folder is on the server as the poll pass of f selected it
AsSelected(f) == w[f].fin = [uv |-> srv[f].uv, hms |-> srv[f].hms]

C26_Applied(f) ==
    /\ LocalUids(folderitems', f) = ServerUids(f)
    /\ \A i \in folderitems' :
          (i.folder = f /\ i.uid \in w[f].updated) => i.flags = Flags(f, i.uid)

\* C26 as stated: a poll pass advances the checkpoint only in the step that
\* ends the MODSEQ delta, with nothing left to download, and then (the folder
\* being on the server as the pass selected it) the deletions, the new UIDs
\* and the flag updates of the delta are in the store; no other step of a
\* poll pass changes the checkpoint, and its highestmodseq never decreases.
C26_CheckpointAfterDelta ==
    [][\A f \in Folders :
          /\ checkpoint'[f].hms >= checkpoint[f].hms
          /\ (fs[f] = "poll" /\ checkpoint'[f] # checkpoint[f]) =>
                /\ w[f].pc = "end" /\ w[f].queue = <<>>
                /\ AsSelected(f) => C26_Applied(f)]_vars

\* the batches of worker f the detector has not completed: those in its inbox
\* and the one it is working on
Outstanding(f) ==
    Cardinality({i \in 1..Len(inbox) : inbox[i].f = f})
        + (IF td.pc # "idle" /\ td.f = f THEN 1 ELSE 0)

\* C27: every folder worker has at most one batch outstanding at the
\* ThreadDetector, a running worker that has one is waiting for its event,
\* and the detector's inbox never holds more batches than there are workers.
C27_OneBatchPerWorker ==
    /\ \A f \in Folders :
          /\ Outstanding(f) <= 1
          /\ (Outstanding(f) = 1 /\ Alive(f)) => (w[f].pc = "wait" /\ ~event[f])
    /\ Len(inbox) <= Cardinality(Folders)

\* C27 witness: two workers have a batch outstanding at the same time, and
\* one of them has a further chunk to fetch.
C27_Witness ==
    /\ \A f \in Folders : Outstanding(f) = 1 /\ w[f].pc = "wait"
    /\ \E f \in Folders : Len(w[f].queue) > 1

\* C28 as stated, its part on progress: under a fair scheduler every worker
\* that waits for the completion event of a batch it has enqueued gets it,
\* also when the processing of a batch has failed.
C28_EveryBatchCompleted ==
    \A f \in Folders : (w[f].pc = "wait" /\ ~event[f]) ~> event[f]

\* the sync task waits for worker f to leave the initial states
AwaitedBySync(f) == sync.pc = "wait" /\ SyncFolders[sync.idx] = f

\* C29 as stated: under a fair scheduler, once a worker has ended with an
\* error the sync task does not wait for it forever, and every folder whose
\* persisted state is not finish gets a worker, unless the supervisor has
\* ended.
C29_FailureReachesSupervisor ==
    \A f \in Folders :
        /\ (w[f].pc = "crashed" /\ AwaitedBySync(f))
              ~> (~AwaitedBySync(f) \/ sup.pc # "run")
        /\ \A g \in Folders :
              (w[f].pc = "crashed" /\ w[g].pc = "unborn" /\ pstate[g] # "finish")
                  ~> (w[g].pc # "unborn" \/ sup.pc # "run")

C30_AloneNeverDownloadsStored ==
    [][\A f \in Folders :
          (/\ W_Download(f) /\ srv \in w[f].seen
           /\ \A m \in messages : m.by = f)
              => Msgs(w'[f].items) \cap StoredMsgids = {}]_vars

\* the credentials new_token has to try for a scope, by their position
C31_Tried(before, scope) ==
    {i \in 1..Len(before) : before[i].is_valid /\ scope \in before[i].scopes}

C31_Call(scope, handler) ==
    LET before == fn.creds
        r      == fn'.last.result
        tried  == C31_Tried(before, scope)
        ok     == {i \in tried : handler[i].kind = "token"}
        exc    == {i \in tried : handler[i].kind = "Exception"}
    IN  /\ ok # {} =>
              /\ r.kind = "return"
              /\ r.gtoken = GToken(fn.issued + 1,
                                   fn.now + handler[Min(ok)].expires_in - 10,
                                   before[Min(ok)].scopes, Min(ok))
        /\ ok = {} =>
              /\ r.kind = "raise"
              /\ r.error = IF exc # {} THEN <<"Exception", Max(exc)>>
                           ELSE <<"OAuthError", 0>>
        /\ r.kind = "return" =>
              /\ before[r.gtoken.auth_creds_id].is_valid
              /\ scope \in before[r.gtoken.auth_creds_id].scopes
        /\ Len(fn'.creds) = Len(before)
        /\ \A i \in 1..Len(before) :
              /\ fn'.creds[i].id = before[i].id
              /\ fn'.creds[i].scopes = before[i].scopes
              /\ fn'.creds[i].is_valid =
                    (/\ before[i].is_valid
                     /\ ~(/\ i \in tried
                          /\ handler[i].kind = "OAuthError"
                          /\ \A j \in ok : i < j))

\* C31 as stated: new_token(scope) returns the token of the first credential,
\* in the order of auth_credentials, that is valid, carries the scope and gets
\* a token from the server; every credential tried before it (or all of them,
\* when none succeeds) that failed with an OAuthError is invalid afterwards,
\* and no call makes an invalid credential valid; when none succeeds it raises
\* the last other error if there was one and an OAuthError otherwise.
C31_NewToken ==
    [][/\ \A s \in Scopes :
            \A handler \in [1..Len(fn.creds) -> HandlerAnswers] :
                T_NewTokenWith(s, handler) => C31_Call(s, handler)
       /\ \A i \in 1..Len(fn.creds) :
            ~fn.creds[i].is_valid => ~fn'.creds[i].is_valid]_vars

\* C31 witness: the first credential failed with an OAuthError and was marked
\* invalid, the second gave the token.
C31_Witness ==
    /\ fn.last # NoCall /\ fn.last.op = "new_token"
    /\ Len(fn.creds) = 2
    /\ fn.last.before[1].is_valid /\ ~fn.creds[1].is_valid
    /\ fn.last.result.kind = "return"
    /\ fn.last.result.gtoken.auth_creds_id = 2

\* a call of get_token: whether it answers from the cache, and what it leaves
\* in the cache
C35_GetToken ==
    LET l      == fn'.last
        cached == fn.tokens[l.account][l.scope]
        usable == ~l.force /\ cached # NoToken /\ fn.now < cached.expiration
    IN  /\ usable =>
              /\ ~l.new_token
              /\ l.result.kind = "return" /\ l.result.value = cached.value
              /\ fn'.tokens = fn.tokens
        /\ ~usable =>
              /\ l.new_token
              /\ l.result.kind = "return" =>
                    /\ l.result.gtoken.value = fn.issued + 1
                    /\ l.scope \in l.result.gtoken.scopes
                    /\ \A a \in GmailAccounts, s \in Scopes :
                          fn'.tokens[a][s] =
                              IF a = l.account /\ s \in l.result.gtoken.scopes
                              THEN l.result.gtoken
                              ELSE fn.tokens[a][s]
              /\ l.result.kind = "raise" => fn'.tokens = fn.tokens

C35_ClearCache ==
    \A a \in GmailAccounts :
        IF a = fn'.last.account
        THEN \A s \in Scopes : fn'.tokens[a][s] = NoToken
        ELSE fn'.tokens[a] = fn.tokens[a]

\* C35 as stated: get_token without force_refresh answers with the cached
\* token exactly when one is cached for the account and the scope and the
\* clock is before its expiration; otherwise, and always with force_refresh,
\* it calls new_token and, when that returns, stores the new token under
\* every scope of the token for this account and changes no other entry;
\* clear_cache(account) empties the entries of that account and leaves those
\* of every other account as they were.
C35_TokenCache ==
    [][fn'.calls = fn.calls + 1 =>
          /\ fn'.last.op = "get_token" => C35_GetToken
          /\ fn'.last.op = "clear_cache" => C35_ClearCache]_vars

\* C35 witness: a call without force_refresh found a token of the scope that
\* had expired, got a new one and cached it, while the other account has a
\* token cached too.
C35_Witness ==
    /\ fn.last # NoCall /\ fn.last.op = "get_token"
    /\ ~fn.last.force /\ fn.last.new_token
    /\ fn.last.before[fn.last.account][fn.last.scope] # NoToken
    /\ fn.last.result.kind = "return"
    /\ \E a \in GmailAccounts \ {fn.last.account} :
          \E s \in Scopes : fn.tokens[a][s] # NoToken

\* the worker has a request to the IMAP server under way or is about to send
\* the next one of its pass
UsesConnection(f) == w[f].pc \in {"fetch", "poll_folders"}

\* C32 as stated: whenever a folder worker has an operation on the remote
\* mailbox under way, it holds the connection under a lease.
C32_OperationsUnderLease == \A f \in Folders : UsesConnection(f) => w[f].lease

\* C33 as stated: a state label that a step writes into the statuses of a
\* folder is the state of the worker that writes it.
C33_LabelIsWorkerState ==
    [][\A f \in Folders :
          (w'[f].status # w[f].status /\ w'[f].status # None)
              => w'[f].status = w[f].state]_vars

\* C34 as stated: between two calls an account is in SyncService.monitors
\* exactly when its supervisor is alive on this host and its sync_host is this
\* host, and no account has this host as sync_host without being in monitors.
C34_RegistryMatchesSupervisors ==
    svc.pc \in {"idle", "returned"} =>
        \A a \in Accounts :
            /\ a \in svc.monitors <=>
                  (a \in svc.running /\ svc.sync_host[a] = ThisHost)
            /\ svc.sync_host[a] = ThisHost => a \in svc.monitors

====
